---- MODULE Spec2Model ----
(***************************************************************************)
(* A model of dragonfly's per-connection I/O pipeline                      *)
(* (facade/dragonfly_connection.cc), of the pub/sub bookkeeping of a       *)
(* connection context (server/conn_context.cc) and of the publishers that  *)
(* deliver to it.                                                          *)
(*                                                                         *)
(* One connection is modelled.  Channels and patterns are numbered; the    *)
(* order of the numbers stands for the lexicographic order of the names.   *)
(***************************************************************************)
EXTENDS Integers, Sequences, FiniteSets, TLC

(***************************************************************************)
(* Bounds of the model.                                                    *)
(***************************************************************************)
NumShards == 2
NumChannels == 2
NumPatterns == 2
MaxArgs == 2
MaxPubs == 2
MaxTok == 2
MaxTestPubs == 1

Shards == 0 .. (NumShards - 1)
Channels == 1 .. NumChannels
Patterns == 1 .. NumPatterns
Pubs == 1 .. MaxPubs
TestPubs == 1 .. MaxTestPubs

RECURSIVE SeqsUpTo(_, _)
SeqsUpTo(S, n) ==
  IF n = 0 THEN {<<>>}
  ELSE LET shorter == SeqsUpTo(S, n - 1)
       IN shorter \cup {Append(s, x) : s \in {t \in shorter : Len(t) = n - 1}, x \in S}

ChannelArgs == SeqsUpTo(Channels, MaxArgs)
PatternArgs == SeqsUpTo(Patterns, MaxArgs)

RECURSIVE SetToSeq(_)
SetToSeq(S) ==
  IF S = {} THEN <<>>
  ELSE LET x == CHOOSE y \in S : \A z \in S : y <= z
       IN <<x>> \o SetToSeq(S \ {x})

(***************************************************************************)
(* State.                                                                  *)
(***************************************************************************)
VARIABLES
  subscribe_info,   \* conn_state.subscribe_info: the subscription record
  force_dispatch,   \* ConnectionContext::force_dispatch
  chan_reg,         \* per shard: channels under which this connection is registered
  pat_reg,          \* per shard: glob patterns under which it is registered
  tokens,           \* count of each borrow token (one token per subscription record)
  next_tok,         \* the token the next subscription record gets
  last_call,        \* the last ChangeSubscription / ChangePSub call
  acks,             \* the acknowledgements that call wrote, in order
  last_ops,         \* per shard: the registry operations that call ran there
  shard_ran,        \* the shards on which that call ran its brief task
  empty_add,        \* some subscribe / psubscribe call had an empty argument list
  pub_st,           \* per publisher: idle, fetched, sent, done
  pub_tok,          \* per publisher: the borrow token it incremented
  pub_pat,          \* per publisher: the pattern that matched (0: exact channel)
  decs,             \* per publisher: how often its completion counter was decremented
  oc_pc,            \* ConnectionContext::OnClose: open, wait1, wait2, closed
  oc_tok,           \* the token OnClose captured and waits on
  protocol,         \* Connection::protocol_: REDIS or MEMCACHE
  rpc,              \* the connection fiber: recv, parse, inline, yield, close, join,
                    \* onclose, done
  wpc,              \* the dispatch fiber: run, await, pub, exec, done
  buf,              \* io_buf_: the commands read and not yet parsed
  dispatch_q,       \* Connection::dispatch_q_
  conn_closing,     \* cc_->conn_closing
  async_dispatch,   \* cc_->async_dispatch
  builder_err,      \* builder->GetError()
  batch_mode,       \* the reply builder's batch mode
  evc_notified,     \* evc_ was notified while the dispatch fiber waits on it
  wreq,             \* the request the dispatch fiber is processing
  rcmd,             \* the command the connection fiber dispatches inline
  sent,             \* the replies written through the reply builder, in order
  next_seq,         \* the number the next frame pushed onto dispatch_q_ gets
  n_recv,           \* how many commands the client sent
  parse_status,     \* ConnectionFlow's parse_status
  consumed,         \* commands consumed from io_buf_ after a successful parse
  inlined,          \* commands the connection fiber dispatched itself
  queued,           \* commands pushed onto dispatch_q_
  last_parse,       \* what the last dispatch decision saw and chose
  uaf,              \* SendMsgVecAsync ran after cc_ was released
  shutdown,         \* shutdown_: whether it exists, its map and next_handle
  live,             \* the handles and callbacks registered and not unregistered, in order
  next_cb,          \* the number of callbacks registered so far
  invoked,          \* the callbacks the last OnShutdown invoked, in order
  sh_called,        \* OnShutdown ran after the last change of the hooks
  returned,         \* the handle each RegisterShutdownHook call returned, in call order
  iobuf,            \* io_buf_ as IoLoop sizes it: capacity, bytes held, last growth step
  http,             \* the protocol probe and the first parse that follows it
  mc,               \* a memcache connection's io_buf_ bytes and what ParseMemcache did
  sset,             \* a StringSet: its slot table, counters and the last call's result
  pubs,             \* pub/sub frames with their payload: queued, taken and written
  bkt               \* a hash, a table size and cursor, and the bucket BucketId gave

ctx_vars == <<subscribe_info, force_dispatch, chan_reg, pat_reg, tokens, next_tok,
              last_call, acks, last_ops, shard_ran>>
pub_vars == <<pub_st, pub_tok, pub_pat>>
oc_vars == <<oc_pc, oc_tok>>
conn_vars == <<protocol, rpc, wpc, buf, dispatch_q, conn_closing, async_dispatch,
               builder_err, batch_mode, evc_notified, wreq, rcmd, sent, next_seq,
               n_recv, parse_status, consumed, inlined, queued, last_parse, uaf>>
hook_vars == <<shutdown, live, next_cb, invoked, sh_called, returned>>
side_vars == <<iobuf, http, mc, sset, pubs, bkt>>
vars == <<ctx_vars, empty_add, hook_vars, side_vars, pub_vars, decs, oc_vars, conn_vars>>

(***************************************************************************)
(* server/conn_context.cc: the subscription record.                        *)
(***************************************************************************)
NoInfo == [exists |-> FALSE, channels |-> {}, patterns |-> {}, borrow_token |-> 0]

NewSubscribeInfo(tok) ==
  [exists |-> TRUE, channels |-> {}, patterns |-> {}, borrow_token |-> tok]

IsEmpty(info) == info.channels = {} /\ info.patterns = {}

Shard(channel) == channel % NumShards

\* The record the call works on: the existing one, or a new one (lines 22-28).
EnsureInfo(info, tok) == IF info.exists THEN info ELSE NewSubscribeInfo(tok)

\* Mutation of GatherChannels: every occurrence of a channel is gathered.
RECURSIVE GatherEveryOccurrence(_, _, _, _)
GatherEveryOccurrence(to_add, to_reply, args, acc) ==
  IF args = <<>> THEN acc
  ELSE LET channel == Head(args)
           set2 == IF to_add THEN acc.set \cup {channel} ELSE acc.set \ {channel}
       IN GatherEveryOccurrence(to_add, to_reply, Tail(args),
            [set |-> set2,
             result |-> IF to_reply THEN Append(acc.result, Cardinality(set2))
                        ELSE acc.result,
             changed |-> Append(acc.changed, <<Shard(channel), channel>>)])

\* A mutant of GatherChannels: the count is taken before the argument is applied.
RECURSIVE GatherChannelsStaleCount(_, _, _, _)
GatherChannelsStaleCount(to_add, to_reply, args, acc) ==
  IF args = <<>> THEN acc
  ELSE LET channel == Head(args)
           res == IF to_add THEN channel \notin acc.set ELSE channel \in acc.set
           set2 == IF to_add THEN acc.set \cup {channel} ELSE acc.set \ {channel}
       IN GatherChannelsStaleCount(to_add, to_reply, Tail(args),
            [set |-> set2,
             result |-> IF to_reply THEN Append(acc.result, Cardinality(acc.set))
                        ELSE acc.result,
             changed |-> IF res THEN Append(acc.changed, <<Shard(channel), channel>>)
                         ELSE acc.changed])

\* The loop of lines 31-47 over args: acc.set is subscribe_info->channels,
\* acc.result the vector result, acc.changed the vector channels.
RECURSIVE GatherChannels(_, _, _, _)
GatherChannels(to_add, to_reply, args, acc) ==
  IF args = <<>> THEN acc
  ELSE LET channel == Head(args)
           res == IF to_add THEN channel \notin acc.set ELSE channel \in acc.set
           set2 == IF to_add THEN acc.set \cup {channel} ELSE acc.set \ {channel}
       IN GatherChannels(to_add, to_reply, Tail(args),
            [set |-> set2,
             result |-> IF to_reply THEN Append(acc.result, Cardinality(set2))
                        ELSE acc.result,
             changed |-> IF res THEN Append(acc.changed, <<Shard(channel), channel>>)
                         ELSE acc.changed])

\* The loop of lines 125-140.
RECURSIVE GatherPatterns(_, _, _, _)
GatherPatterns(to_add, to_reply, args, acc) ==
  IF args = <<>> THEN acc
  ELSE LET pattern == Head(args)
           res == IF to_add THEN pattern \notin acc.set ELSE pattern \in acc.set
           set2 == IF to_add THEN acc.set \cup {pattern} ELSE acc.set \ {pattern}
       IN GatherPatterns(to_add, to_reply, Tail(args),
            [set |-> set2,
             result |-> IF to_reply THEN Append(acc.result, Cardinality(set2))
                        ELSE acc.result,
             changed |-> IF res THEN Append(acc.changed, pattern) ELSE acc.changed])

\* Mutation of ZeroResult: the vector result is left empty.
EmptyResult(to_reply, args) == <<>>

\* vector<unsigned> result(to_reply ? args.size() : 0, 0)
ZeroResult(to_reply, args) == IF to_reply THEN [i \in 1 .. Len(args) |-> 0] ELSE <<>>

\* operator< of pair<ShardId, string_view>
PairLess(a, b) == a[1] < b[1] \/ (a[1] = b[1] /\ a[2] < b[2])

RECURSIVE InsertSorted(_, _)
InsertSorted(x, s) ==
  IF s = <<>> THEN <<x>>
  ELSE IF PairLess(x, Head(s)) THEN <<x>> \o s
  ELSE <<Head(s)>> \o InsertSorted(x, Tail(s))

\* Mutation of SortChannels: the gathered channels are left in argument order.
SortNone(s) == s

\* sort(channels.begin(), channels.end())
RECURSIVE SortChannels(_)
SortChannels(s) ==
  IF s = <<>> THEN <<>> ELSE InsertSorted(Head(s), SortChannels(Tail(s)))

\* shard_idx[k_v.first]++ for every entry (lines 57-60); index NumShards stays 0.
CountPerShard(channels) ==
  [s \in 0 .. NumShards |->
     Cardinality({i \in DOMAIN channels : channels[i][1] = s})]

\* The cumulative sum of lines 65-69.
RECURSIVE CumulativeSum(_, _, _)
CumulativeSum(idx, i, prev) ==
  IF i > NumShards THEN idx
  ELSE CumulativeSum([idx EXCEPT ![i] = idx[i - 1] + prev], i + 1, idx[i])

\* shard_idx as the shard callbacks read it (lines 57-69).
ShardIdx(channels) ==
  LET cnt == CountPerShard(channels)
  IN CumulativeSum([cnt EXCEPT ![0] = 0], 1, cnt[0])

\* The predicate of RunBriefInParallel (line 92).
ShardHasWork(idx, sid) == idx[sid + 1] > idx[sid]

\* The channels the callback of lines 75-88 handles on shard sid, in order.
ShardRange(channels, idx, sid) ==
  IF ShardHasWork(idx, sid)
  THEN [k \in 1 .. (idx[sid + 1] - idx[sid]) |-> channels[idx[sid] + k][2]]
  ELSE <<>>

Range(s) == {s[i] : i \in DOMAIN s}

\* ChannelSlice::AddSubscription / RemoveSubscription on one shard.
ApplyOps(reg, to_add, ops) == IF to_add THEN reg \cup Range(ops) ELSE reg \ Range(ops)

AckAction(to_add, pat) ==
  IF pat THEN (IF to_add THEN "psubscribe" ELSE "punsubscribe")
  ELSE (IF to_add THEN "subscribe" ELSE "unsubscribe")

\* The replies of lines 95-107 (166-175): {action, name, count} per argument.
Acks(to_add, pat, args, result) ==
  [i \in 1 .. Len(result) |->
     [action |-> AckAction(to_add, pat), name |-> args[i], count |-> result[i]]]

\* Mutation of PSubShards: the patterns go to the first shard only.
PSubFirstShard == {0}

\* shard_set->RunBriefInParallel(move(cb)) of line 163: run on all shards.
PSubShards == Shards

\* A mutant of ResetNeeded: the record is never released.
ResetNever(to_add, info) == FALSE

\* if (!to_add && conn_state.subscribe_info->IsEmpty()): release the record.
ResetNeeded(to_add, info) == ~to_add /\ IsEmpty(info)

\* ConnectionContext::ChangeSubscription(to_add, to_reply, args)
ChangeSubscription(to_add, to_reply, args) ==
  LET enter == to_add \/ subscribe_info.exists
      info == EnsureInfo(subscribe_info, next_tok)
      g == GatherChannels(to_add, to_reply, args,
                          [set |-> info.channels, result |-> <<>>, changed |-> <<>>])
      info2 == [info EXCEPT !.channels = g.set]
      reset == ResetNeeded(to_add, info2)
      channels == SortChannels(g.changed)
      shard_idx == ShardIdx(channels)
      ops == [sid \in Shards |-> ShardRange(channels, shard_idx, sid)]
      result == IF enter THEN g.result ELSE ZeroResult(to_reply, args)
  IN /\ subscribe_info' = IF ~enter \/ reset THEN NoInfo ELSE info2
     /\ force_dispatch' = IF ~enter THEN force_dispatch ELSE ~reset
     /\ next_tok' = IF enter /\ ~subscribe_info.exists THEN next_tok + 1 ELSE next_tok
     /\ chan_reg' = IF enter
                    THEN [sid \in Shards |-> ApplyOps(chan_reg[sid], to_add, ops[sid])]
                    ELSE chan_reg
     /\ last_ops' = IF enter THEN ops ELSE [sid \in Shards |-> <<>>]
     /\ shard_ran' = IF enter THEN {sid \in Shards : ShardHasWork(shard_idx, sid)}
                     ELSE {}
     /\ acks' = Acks(to_add, FALSE, args, result)
     /\ last_call' = [pat |-> FALSE, to_add |-> to_add, to_reply |-> to_reply,
                      args |-> args]
     /\ UNCHANGED <<pat_reg, tokens>>

\* ConnectionContext::ChangePSub(to_add, to_reply, args)
ChangePSub(to_add, to_reply, args) ==
  LET enter == to_add \/ subscribe_info.exists
      info == EnsureInfo(subscribe_info, next_tok)
      g == GatherPatterns(to_add, to_reply, args,
                          [set |-> info.patterns, result |-> <<>>, changed |-> <<>>])
      info2 == [info EXCEPT !.patterns = g.set]
      reset == ResetNeeded(to_add, info2)
      result == IF enter THEN g.result ELSE ZeroResult(to_reply, args)
  IN /\ subscribe_info' = IF ~enter \/ reset THEN NoInfo ELSE info2
     /\ force_dispatch' = IF ~enter THEN force_dispatch ELSE ~reset
     /\ next_tok' = IF enter /\ ~subscribe_info.exists THEN next_tok + 1 ELSE next_tok
     /\ pat_reg' = [sid \in Shards |->
                       IF enter /\ sid \in PSubShards
                       THEN ApplyOps(pat_reg[sid], to_add, g.changed)
                       ELSE pat_reg[sid]]
     /\ last_ops' = [sid \in Shards |->
                       IF enter /\ sid \in PSubShards THEN g.changed ELSE <<>>]
     /\ shard_ran' = IF enter THEN PSubShards ELSE {}
     /\ acks' = Acks(to_add, TRUE, args, result)
     /\ last_call' = [pat |-> TRUE, to_add |-> to_add, to_reply |-> to_reply,
                      args |-> args]
     /\ UNCHANGED <<chan_reg, tokens>>

(***************************************************************************)
(* Publishers (spec section 4.2): a publisher takes a reference to the     *)
(* subscriber on the shard that owns the channel, incrementing the borrow  *)
(* token of its subscription record, delivers through SendMsgVecAsync on   *)
(* the connection's thread, waits for its completion counter and then      *)
(* decrements the borrow token.                                            *)
(***************************************************************************)
\* glob matching of a pattern against a channel: every pattern matches.
Matches(pattern, channel) == TRUE

\* What a publish to channel finds for this connection on the owning shard:
\* 0 for the exact subscription, or a matching pattern.
Subscribers(channel) ==
  (IF channel \in chan_reg[Shard(channel)] THEN {0} ELSE {})
    \cup {pt \in pat_reg[Shard(channel)] : Matches(pt, channel)}

PubFetch(p) ==
  /\ pub_st[p] = "idle"
  /\ subscribe_info.exists
  /\ \E channel \in Channels : \E pt \in Subscribers(channel) :
       pub_pat' = [pub_pat EXCEPT ![p] = pt]
  /\ pub_st' = [pub_st EXCEPT ![p] = "fetched"]
  /\ pub_tok' = [pub_tok EXCEPT ![p] = subscribe_info.borrow_token]
  /\ tokens' = [tokens EXCEPT ![subscribe_info.borrow_token] = @ + 1]
  /\ UNCHANGED <<subscribe_info, force_dispatch, chan_reg, pat_reg, next_tok,
                 last_call, acks, last_ops, shard_ran, empty_add, hook_vars, side_vars, decs,
                 oc_vars,
                 conn_vars>>

PubRelease(p) ==
  /\ pub_st[p] = "sent"
  /\ decs[p] >= 1
  /\ pub_st' = [pub_st EXCEPT ![p] = "done"]
  /\ tokens' = [tokens EXCEPT ![pub_tok[p]] = @ - 1]
  /\ UNCHANGED <<subscribe_info, force_dispatch, chan_reg, pat_reg, next_tok,
                 last_call, acks, last_ops, shard_ran, empty_add, hook_vars, side_vars, pub_tok,
                 pub_pat, decs,
                 oc_vars, conn_vars>>

\* A publisher that took its reference and has not given it back.
HoldsReference(p) == pub_st[p] \in {"fetched", "sent"}

(***************************************************************************)
(* ConnectionContext::OnClose (conn_context.cc, lines 178-208).            *)
(***************************************************************************)
\* Lines 179-192: return without a record; else unsubscribe from all channels
\* and wait on the token captured before; else go on to the patterns.
OnCloseStart ==
  /\ oc_pc = "open"
  /\ IF ~subscribe_info.exists
     THEN /\ oc_pc' = "closed"
          /\ UNCHANGED <<ctx_vars, oc_tok>>
     ELSE IF subscribe_info.channels # {}
     THEN /\ oc_tok' = subscribe_info.borrow_token
          /\ ChangeSubscription(FALSE, FALSE, SetToSeq(subscribe_info.channels))
          /\ oc_pc' = "wait1"
     ELSE /\ oc_tok' = subscribe_info.borrow_token
          /\ ChangePSub(FALSE, FALSE, SetToSeq(subscribe_info.patterns))
          /\ oc_pc' = "wait2"
  /\ UNCHANGED <<empty_add, hook_vars, side_vars, pub_vars, decs>>

\* token.Wait() of line 191 returns; lines 194-205.
OnCloseChannelsDone ==
  /\ oc_pc = "wait1"
  /\ tokens[oc_tok] = 0
  /\ IF subscribe_info.exists
     THEN /\ oc_tok' = subscribe_info.borrow_token
          /\ ChangePSub(FALSE, FALSE, SetToSeq(subscribe_info.patterns))
          /\ oc_pc' = "wait2"
     ELSE /\ oc_pc' = "closed"
          /\ UNCHANGED <<ctx_vars, oc_tok>>
  /\ UNCHANGED <<empty_add, hook_vars, side_vars, pub_vars, decs>>

\* token.Wait() of line 205 returns.
OnClosePatternsDone ==
  /\ oc_pc = "wait2"
  /\ tokens[oc_tok] = 0
  /\ oc_pc' = "closed"
  /\ UNCHANGED <<ctx_vars, oc_tok, empty_add, hook_vars, side_vars, pub_vars, decs>>

(***************************************************************************)
(* The connection context driven directly, as the test harness drives it   *)
(* (test_utils.cc): commands call ChangeSubscription and ChangePSub, and   *)
(* a publisher delivers through TestConnection::SendMsgVecAsync.           *)
(***************************************************************************)
\* A call that creates a subscription record takes a fresh borrow token.
TokenLeft(to_add) == subscribe_info.exists \/ ~to_add \/ next_tok <= MaxTok

CallChangeSubscription ==
  /\ oc_pc = "open"
  /\ \E to_add \in BOOLEAN, args \in ChannelArgs :
       /\ TokenLeft(to_add)
       /\ ChangeSubscription(to_add, TRUE, args)
       /\ empty_add' = (empty_add \/ (to_add /\ args = <<>>))
  /\ UNCHANGED <<hook_vars, side_vars>>
  /\ UNCHANGED <<pub_vars, decs, oc_vars, conn_vars>>

CallChangePSub ==
  /\ oc_pc = "open"
  /\ \E to_add \in BOOLEAN, args \in PatternArgs :
       /\ TokenLeft(to_add)
       /\ ChangePSub(to_add, TRUE, args)
       /\ empty_add' = (empty_add \/ (to_add /\ args = <<>>))
  /\ UNCHANGED <<hook_vars, side_vars>>
  /\ UNCHANGED <<pub_vars, decs, oc_vars, conn_vars>>

\* TestConnection::SendMsgVecAsync: keeps the message and decrements the counter.
TestSendMsgVecAsync(p) ==
  /\ pub_st[p] = "fetched"
  /\ pub_st' = [pub_st EXCEPT ![p] = "sent"]
  /\ decs' = [decs EXCEPT ![p] = @ + 1]
  /\ UNCHANGED <<ctx_vars, empty_add, hook_vars, side_vars, pub_tok, pub_pat, oc_vars, conn_vars>>

CallOnClose ==
  /\ (OnCloseStart \/ OnCloseChannelsDone \/ OnClosePatternsDone)
  /\ UNCHANGED conn_vars

NoCmd == [id |-> 0, op |-> "none", arg |-> 0, pos |-> 0, blen |-> 0]
NoReq == [async |-> FALSE, seq |-> 0, cmd |-> NoCmd, pub |-> 0]
NoParse == [valid |-> FALSE, inline |-> FALSE, q_empty |-> FALSE, async |-> FALSE,
            force |-> FALSE, all_consumed |-> FALSE, yielded |-> FALSE]

InitCtx ==
  /\ subscribe_info = NoInfo
  /\ force_dispatch = FALSE
  /\ chan_reg = [sid \in Shards |-> {}]
  /\ pat_reg = [sid \in Shards |-> {}]
  /\ tokens = [t \in 1 .. MaxTok |-> 0]
  /\ next_tok = 1
  /\ last_call = [pat |-> FALSE, to_add |-> FALSE, to_reply |-> FALSE, args |-> <<>>]
  /\ acks = <<>>
  /\ last_ops = [sid \in Shards |-> <<>>]
  /\ shard_ran = {}
  /\ empty_add = FALSE
  /\ pub_st = [p \in Pubs |-> "idle"]
  /\ pub_tok = [p \in Pubs |-> 0]
  /\ pub_pat = [p \in Pubs |-> 0]
  /\ decs = [p \in Pubs |-> 0]
  /\ oc_pc = "open"
  /\ oc_tok = 0

\* No Shutdown object: Connection keeps shutdown_ empty until a hook is added.
NoShutdown == [exists |-> FALSE, map |-> {}, next_handle |-> 1]

kMinReadSize == 256
kMaxReadSize == 32768

\* The parser length hints (redis_parser_->parselen_hint()) the model draws from.
Hints == {0, 300, 5000, 40000}

RECURSIVE BitCeilFrom(_, _)
BitCeilFrom(p, n) == IF p >= n THEN p ELSE BitCeilFrom(2 * p, n)

\* base::IoBuf::Reserve(sz) as IoLoop uses it: a request below the capacity
\* changes nothing, any other is rounded up to a power of two.
Reserve(capacity, sz) == IF sz < capacity THEN capacity ELSE BitCeilFrom(1, sz)

\* io_buf_(kMinReadSize), before the first read.
NewIoBuf == [capacity |-> Reserve(0, kMinReadSize), len |-> 0, hint |-> 0, grew |-> "none"]

\* The connection before HandleRequests ran: nothing read, nothing decided.
NoProbe == [pc |-> "idle", input |-> <<>>, off |-> 0, io |-> <<>>, last_len |-> 0,
            result |-> "none", at_decision |-> <<>>, parsed |-> <<>>, reads |-> 0,
            before_loop |-> <<>>]

\* A memcache connection before its first read.
NoMc == [pc |-> "idle", stream |-> <<>>, input |-> <<>>, off |-> 0, io |-> <<>>,
         dispatched |-> <<>>, n_total |-> 0, status |-> "OK", error |-> FALSE]

\* StringSet: strings are 1 .. NumStrings, Hash gives their hash codes of
\* HashBits bits, the table starts with 2^MinLog buckets.
NumStrings == 5
HashBits == 3
MinLog == 1
Strings == 1 .. NumStrings
HashCodes == <<0, 1, 2, 6, 0, 3, 7>>
Hash == [s \in Strings |-> HashCodes[((s - 1) % Len(HashCodes)) + 1]]

RECURSIVE Pow2(_)
Pow2(n) == IF n = 0 THEN 1 ELSE 2 * Pow2(n - 1)

EmptySlot == [strs |-> <<>>, displaced |-> FALSE]

\* StringSet(mr): no string, no link node, a table of empty slots.
NewStringSet ==
  [entries |-> [b \in 0 .. (Pow2(MinLog) - 1) |-> EmptySlot], capacity_log |-> MinLog,
   size |-> 0, num_chain_entries |-> 0]

NoSetCall == [op |-> "none", str |-> 0, result |-> FALSE, was_present |-> FALSE]

\* No pub/sub frame was handed to the connection yet.
\* No call of BucketId was made yet.
NoBucket == [op |-> "none", hash |-> 0, capacity_log |-> 0, bid |-> 0, cursor |-> 0,
             prev_bid |-> 0, prev_cursor |-> 0]

NoPubs == [q |-> <<>>, log |-> <<>>, out |-> <<>>, taken |-> 0, dec |-> 0]

InitConn ==
  /\ shutdown = NoShutdown
  /\ iobuf = NewIoBuf
  /\ http = NoProbe
  /\ mc = NoMc
  /\ sset = [t |-> NewStringSet, present |-> {}, last |-> NoSetCall]
  /\ pubs = NoPubs
  /\ bkt = NoBucket
  /\ live = <<>>
  /\ next_cb = 0
  /\ invoked = <<>>
  /\ sh_called = FALSE
  /\ returned = <<>>
  /\ rpc = "recv"
  /\ wpc = "await"
  /\ buf = <<>>
  /\ dispatch_q = <<>>
  /\ conn_closing = FALSE
  /\ async_dispatch = FALSE
  /\ builder_err = FALSE
  /\ batch_mode = FALSE
  /\ evc_notified = FALSE
  /\ wreq = NoReq
  /\ rcmd = NoCmd
  /\ sent = <<>>
  /\ next_seq = 1
  /\ n_recv = 0
  /\ parse_status = "OK"
  /\ consumed = {}
  /\ inlined = {}
  /\ queued = {}
  /\ last_parse = NoParse
  /\ uaf = FALSE

InitSub == InitCtx /\ InitConn /\ protocol = "REDIS"

NextSub ==
  \/ CallChangeSubscription
  \/ CallChangePSub
  \/ CallOnClose
  \/ \E p \in TestPubs : PubFetch(p)
  \/ \E p \in TestPubs : TestSendMsgVecAsync(p)
  \/ \E p \in TestPubs : PubRelease(p)

SpecSub == InitSub /\ [][NextSub]_vars

(***************************************************************************)
(* facade/dragonfly_connection.cc: the connection fiber (ConnectionFlow,   *)
(* IoLoop, ParseRedis, ParseMemcache) and the dispatch fiber               *)
(* (DispatchFiber) of one connection.  Both run on the connection's thread *)
(* and are scheduled cooperatively: a fiber runs until it suspends (socket *)
(* recv or send, a command that hops to a shard, yield, await, join), and  *)
(* callbacks posted to the thread run between fibers.                      *)
(***************************************************************************)
kYieldQueueLen == 10
MaxCmds == 3
MaxBatch == 2

\* The channel the modelled client subscribes to and unsubscribes from.
ConnChannels == {CHOOSE c \in Channels : \A d \in Channels : c <= d}

PlainCmd == [op |-> "cmd", arg |-> 0]
BadCmd == [op |-> "bad", arg |-> 0]

\* What a client can send: a command, a malformed request, and on a RESP
\* connection SUBSCRIBE and UNSUBSCRIBE of one channel.
CmdKinds(proto) ==
  {PlainCmd, BadCmd} \cup
    (IF proto = "REDIS"
     THEN {[op |-> o, arg |-> c] : o \in {"sub", "unsub"}, c \in ConnChannels}
     ELSE {})

\* One socket read: up to MaxBatch pipelined requests, or a long pipeline of
\* plain commands that overruns the yield threshold of ParseRedis.
Pipeline == [i \in 1 .. (kYieldQueueLen + 2) |-> PlainCmd]

Batches(proto) ==
  (SeqsUpTo(CmdKinds(proto), MaxBatch) \ {<<>>})
    \cup (IF proto = "REDIS" THEN {Pipeline} ELSE {})

\* The commands of a read, numbered in the order the client sent them; pos is
\* the place of a command in its read and blen the number of commands of it.
Numbered(batch, from) ==
  [i \in 1 .. Len(batch) |->
     [id |-> from + i, op |-> batch[i].op, arg |-> batch[i].arg, pos |-> i,
      blen |-> Len(batch)]]

Subs(s) == Cardinality({i \in DOMAIN s : s[i].op = "sub"})
QueuedSubs(q) == Cardinality({i \in DOMAIN q : ~q[i].async /\ q[i].cmd.op = "sub"})

\* A fiber holds the thread: nothing else runs until it suspends.
Running == rpc \in {"parse", "close"} \/ wpc = "run"

\* evc_.notify(): wakes the dispatch fiber if it waits.
Notify(cond) == IF cond /\ wpc = "await" THEN TRUE ELSE evc_notified

\* Mutation of PushBack: the request goes to the front of the queue.
PushFront(q, req) == <<req>> \o q

\* dispatch_q_.push_back(req)
PushBack(q, req) == Append(q, req)

\* Mutation of NotifyOnPush: the dispatch fiber is never notified of a push.
NotifyNever(q) == FALSE

\* if (dispatch_q_.size() == 1) evc_.notify();
NotifyOnPush(q) == Len(q) = 1

\* Mutation of YieldOnPush: the reader yields after every push but the first.
YieldAlways(q) == Len(q) # 1

\* else if (dispatch_q_.size() > 10) this_fiber::yield();
YieldOnPush(q) == Len(q) # 1 /\ Len(q) > kYieldQueueLen

\* Mutation of SyncDispatchRedis: the dispatch queue is not consulted.
SyncDispatchNoQueue(q, async, force, all_consumed) ==
  (~async /\ ~force) /\ all_consumed

\* Mutation of SyncDispatchRedis: async_dispatch is not consulted.
SyncDispatchNoLock(q, async, force, all_consumed) ==
  q = <<>> /\ ~force /\ all_consumed

\* ParseRedis, lines 402-403.
SyncDispatchRedis(q, async, force, all_consumed) ==
  q = <<>> /\ (~async /\ ~force) /\ all_consumed

\* ParseMemcache, lines 464-465.
SyncDispatchMemcache(q, async) == q = <<>> /\ ~async

\* service_->DispatchCommand(args, cc_): what the command does to the context
\* before it writes its reply.
DispatchCommand(c) ==
  IF c.op = "sub" THEN ChangeSubscription(TRUE, TRUE, <<c.arg>>)
  ELSE IF c.op = "unsub" THEN ChangeSubscription(FALSE, TRUE, <<c.arg>>)
  ELSE UNCHANGED ctx_vars

\* Where the connection fiber goes after one iteration of the parse loop:
\* the loop ends on a reply builder error and IoLoop returns; with the buffer
\* empty the parser asks for more and IoLoop reads again.
AfterIteration(rest) ==
  IF builder_err THEN "close" ELSE IF rest = <<>> THEN "recv" ELSE "parse"

\* The reader yielded earlier in the read that command c belongs to.
YieldedBefore(c) == c.pos > 1 /\ last_parse.yielded

\* What the dispatch condition read when it was evaluated for a command, and
\* whether the reader has yielded in the read the command belongs to.
Decision(inline, yielded) ==
  [valid |-> TRUE, inline |-> inline, q_empty |-> dispatch_q = <<>>,
   async |-> async_dispatch, force |-> force_dispatch,
   all_consumed |-> Len(buf) = 1, yielded |-> yielded]

\* IoLoop, lines 497-512: peer->Recv returned bytes.
ReaderRecv ==
  /\ rpc = "recv"
  /\ ~Running
  /\ \E batch \in Batches(protocol) :
       /\ IF batch = Pipeline THEN n_recv = 0 ELSE n_recv + Len(batch) <= MaxCmds
       /\ Subs(buf) + Subs(batch) + QueuedSubs(dispatch_q) + next_tok <= MaxTok + 1
       /\ buf' = buf \o Numbered(batch, n_recv)
       /\ n_recv' = n_recv + Len(batch)
  /\ rpc' = "parse"
  /\ UNCHANGED <<ctx_vars, empty_add, hook_vars, side_vars, pub_vars, decs, oc_vars, protocol, wpc,
                 dispatch_q, conn_closing, async_dispatch, builder_err, batch_mode,
                 evc_notified, wreq, rcmd, sent, next_seq, parse_status, consumed,
                 inlined, queued, last_parse, uaf>>

\* IoLoop, lines 503-507: peer->Recv failed (the peer closed the socket).
ReaderRecvError ==
  /\ rpc = "recv"
  /\ ~Running
  /\ rpc' = "close"
  /\ UNCHANGED <<ctx_vars, empty_add, hook_vars, side_vars, pub_vars, decs, oc_vars, protocol,
                 wpc, buf,
                 dispatch_q, conn_closing, async_dispatch, builder_err, batch_mode,
                 evc_notified, wreq, rcmd, sent, next_seq, n_recv, parse_status,
                 consumed, inlined, queued, last_parse, uaf>>

\* One iteration of the loop of ParseRedis (lines 389-421) up to the point
\* where the fiber suspends or the iteration ends.
ReaderParseRedis ==
  /\ protocol = "REDIS"
  /\ rpc = "parse"
  /\ buf # <<>>
  /\ LET c == Head(buf)
         inline == SyncDispatchRedis(dispatch_q, async_dispatch, force_dispatch,
                                     Len(buf) = 1)
         q2 == PushBack(dispatch_q,
                        [async |-> FALSE, seq |-> next_seq, cmd |-> c, pub |-> 0])
     IN IF c.op = "bad"
        THEN \* a protocol error: ParseRedis returns ERROR and IoLoop breaks
             /\ buf' = Tail(buf)
             /\ parse_status' = "ERROR"
             /\ rpc' = "close"
             /\ UNCHANGED <<ctx_vars, dispatch_q, evc_notified, rcmd, next_seq,
                            consumed, inlined, queued, last_parse>>
        ELSE IF inline
        THEN \* lines 404-406: the fiber is inside DispatchCommand
             /\ DispatchCommand(c)
             /\ rcmd' = c
             /\ inlined' = inlined \cup {c.id}
             /\ last_parse' = Decision(TRUE, YieldedBefore(c))
             /\ rpc' = "inline"
             /\ UNCHANGED <<buf, parse_status, dispatch_q, evc_notified, next_seq,
                            consumed, queued>>
        ELSE \* lines 410-417 and 420
             /\ dispatch_q' = q2
             /\ next_seq' = next_seq + 1
             /\ queued' = queued \cup {c.id}
             /\ evc_notified' = Notify(NotifyOnPush(q2))
             /\ last_parse' = Decision(FALSE, YieldedBefore(c) \/ YieldOnPush(q2))
             /\ buf' = Tail(buf)
             /\ consumed' = consumed \cup {c.id}
             /\ rpc' = IF YieldOnPush(q2) THEN "yield" ELSE AfterIteration(Tail(buf))
             /\ UNCHANGED <<ctx_vars, parse_status, rcmd, inlined>>
  /\ UNCHANGED <<empty_add, hook_vars, side_vars, pub_vars, decs, oc_vars, protocol, wpc,
                 conn_closing,
                 async_dispatch, builder_err, batch_mode, wreq, sent, n_recv, uaf>>

\* One iteration of the loop of ParseMemcache (lines 440-469).
ReaderParseMemcache ==
  /\ protocol = "MEMCACHE"
  /\ rpc = "parse"
  /\ buf # <<>>
  /\ LET c == Head(buf)
         inline == SyncDispatchMemcache(dispatch_q, async_dispatch)
     IN IF c.op = "bad"
        THEN \* lines 444-447, 477-485: the error is answered, ParseMemcache
             \* returns OK and IoLoop reads on
             /\ buf' = Tail(buf)
             /\ sent' = Append(sent, [who |-> "reader", seq |-> 0, what |-> "error", id |-> 0])
             /\ rpc' = IF builder_err THEN "close" ELSE "recv"
             /\ UNCHANGED <<rcmd, inlined, consumed, last_parse>>
        ELSE IF inline
        THEN \* line 466: the fiber is inside DispatchMC
             /\ rcmd' = c
             /\ inlined' = inlined \cup {c.id}
             /\ last_parse' = Decision(TRUE, FALSE)
             /\ rpc' = "inline"
             /\ UNCHANGED <<buf, sent, consumed>>
        ELSE \* line 468: the command is consumed
             /\ last_parse' = Decision(FALSE, FALSE)
             /\ buf' = Tail(buf)
             /\ consumed' = consumed \cup {c.id}
             /\ rpc' = AfterIteration(Tail(buf))
             /\ UNCHANGED <<sent, rcmd, inlined>>
  /\ UNCHANGED <<ctx_vars, empty_add, hook_vars, side_vars, pub_vars, decs, oc_vars, protocol, wpc,
                 dispatch_q, conn_closing, async_dispatch, builder_err, batch_mode,
                 evc_notified, wreq, next_seq, n_recv, parse_status, queued, uaf>>

\* The inline DispatchCommand / DispatchMC returns: its reply is written, the
\* command is consumed (lines 407, 420 and 468) and the loop goes on.
ReaderInlineDone ==
  /\ rpc = "inline"
  /\ ~Running
  /\ sent' = Append(sent, [who |-> "reader", seq |-> 0, what |-> rcmd.op,
                           id |-> rcmd.id])
  /\ buf' = Tail(buf)
  /\ consumed' = consumed \cup {rcmd.id}
  /\ rcmd' = NoCmd
  /\ rpc' = AfterIteration(Tail(buf))
  /\ UNCHANGED <<ctx_vars, empty_add, hook_vars, side_vars, pub_vars, decs, oc_vars, protocol, wpc,
                 dispatch_q, conn_closing, async_dispatch, builder_err, batch_mode,
                 evc_notified, wreq, next_seq, n_recv, parse_status, inlined, queued,
                 last_parse, uaf>>

\* this_fiber::yield() of line 416 returns; the loop condition of line 421.
ReaderResume ==
  /\ rpc = "yield"
  /\ ~Running
  /\ rpc' = AfterIteration(buf)
  /\ UNCHANGED <<ctx_vars, empty_add, hook_vars, side_vars, pub_vars, decs, oc_vars, protocol,
                 wpc, buf,
                 dispatch_q, conn_closing, async_dispatch, builder_err, batch_mode,
                 evc_notified, wreq, rcmd, sent, next_seq, n_recv, parse_status,
                 consumed, inlined, queued, last_parse, uaf>>

\* ConnectionFlow, lines 346-347, after IoLoop returned.
ReaderClose ==
  /\ rpc = "close"
  /\ conn_closing' = TRUE
  /\ evc_notified' = Notify(TRUE)
  /\ rpc' = "join"
  /\ UNCHANGED <<ctx_vars, empty_add, hook_vars, side_vars, pub_vars, decs, oc_vars, protocol,
                 wpc, buf,
                 dispatch_q, async_dispatch, builder_err, batch_mode, wreq, rcmd,
                 sent, next_seq, n_recv, parse_status, consumed, inlined, queued,
                 last_parse, uaf>>

\* dispatch_fb.join() of line 348 returns.
ReaderJoin ==
  /\ rpc = "join"
  /\ ~Running
  /\ wpc = "done"
  /\ rpc' = "onclose"
  /\ UNCHANGED <<ctx_vars, empty_add, hook_vars, side_vars, pub_vars, decs, oc_vars, protocol,
                 wpc, buf,
                 dispatch_q, conn_closing, async_dispatch, builder_err, batch_mode,
                 evc_notified, wreq, rcmd, sent, next_seq, n_recv, parse_status,
                 consumed, inlined, queued, last_parse, uaf>>

\* cc_->OnClose() of line 349.
ReaderOnClose ==
  /\ rpc = "onclose"
  /\ ~Running
  /\ (OnCloseStart \/ OnCloseChannelsDone \/ OnClosePatternsDone)
  /\ UNCHANGED conn_vars

\* ConnectionFlow, lines 358-373, returns and HandleRequests releases the
\* context (line 237).
ReaderFinish ==
  /\ rpc = "onclose"
  /\ ~Running
  /\ oc_pc = "closed"
  /\ sent' = IF parse_status = "ERROR"
             THEN Append(sent, [who |-> "reader", seq |-> 0, what |-> "protocol_error",
                                id |-> 0])
             ELSE sent
  /\ rpc' = "done"
  /\ UNCHANGED <<ctx_vars, empty_add, hook_vars, side_vars, pub_vars, decs, oc_vars, protocol,
                 wpc, buf,
                 dispatch_q, conn_closing, async_dispatch, builder_err, batch_mode,
                 evc_notified, wreq, rcmd, next_seq, n_recv, parse_status, consumed,
                 inlined, queued, last_parse, uaf>>

Released == rpc = "done"

\* Mutation of AwaitPred: the fiber wakes for queued requests only.
AwaitQueueOnly == dispatch_q # <<>>

\* The predicate of evc_.await (line 567).
AwaitPred == conn_closing \/ dispatch_q # <<>>

\* bc.Dec() for every pub/sub frame of q (lines 614-625).
DecAll(q, d) ==
  [p \in Pubs |-> d[p] + Cardinality({i \in DOMAIN q : q[i].async /\ q[i].pub = p})]

\* Lines 611-625: the dispatch fiber leaves its loop.
WorkerExit ==
  /\ conn_closing' = TRUE
  /\ decs' = DecAll(dispatch_q, decs)
  /\ dispatch_q' = <<>>
  /\ wpc' = "done"
  /\ UNCHANGED <<ctx_vars, async_dispatch, batch_mode, wreq, evc_notified>>

\* dispatch_q_.front(), pop_front()
Front(q) == Head(q)
PopFront(q) == Tail(q)

\* Mutation of BatchMode: every queued command is answered in batch mode.
BatchAlways(rest) == TRUE

\* Line 601: SetBatchMode(!dispatch_q_.empty()), after the frame was popped.
BatchMode(rest) == rest # <<>>

\* Lines 568-603 after evc_.await returned: leave on conn_closing, else take
\* the front request and start on it.
WorkerTake ==
  IF conn_closing THEN WorkerExit
  ELSE LET req == Front(dispatch_q)
           rest == PopFront(dispatch_q)
       IN /\ dispatch_q' = rest
          /\ wreq' = req
          /\ IF req.async
             THEN \* lines 574-592: SendStringArr of the message
                  /\ wpc' = "pub"
                  /\ UNCHANGED <<ctx_vars, batch_mode, async_dispatch>>
             ELSE \* lines 599-603: the fiber is inside DispatchCommand
                  /\ batch_mode' = BatchMode(rest)
                  /\ async_dispatch' = TRUE
                  /\ DispatchCommand(req.cmd)
                  /\ wpc' = "exec"
          /\ UNCHANGED <<conn_closing, decs, evc_notified>>

\* The top of the loop of DispatchFiber (lines 566-567).
WorkerLoop ==
  /\ wpc = "run"
  /\ IF builder_err THEN WorkerExit
     ELSE IF ~AwaitPred
     THEN /\ wpc' = "await"
          /\ evc_notified' = FALSE
          /\ UNCHANGED <<ctx_vars, dispatch_q, conn_closing, async_dispatch,
                         batch_mode, wreq, decs>>
     ELSE WorkerTake
  /\ UNCHANGED <<empty_add, hook_vars, side_vars, pub_vars, oc_vars, protocol, rpc, buf,
                 builder_err, rcmd,
                 sent, next_seq, n_recv, parse_status, consumed, inlined, queued,
                 last_parse, uaf>>

\* evc_.await of line 567 wakes up on a notification.
WorkerWake ==
  /\ wpc = "await"
  /\ evc_notified
  /\ ~Running
  /\ IF AwaitPred THEN WorkerTake
     ELSE /\ evc_notified' = FALSE
          /\ UNCHANGED <<ctx_vars, dispatch_q, conn_closing, async_dispatch,
                         batch_mode, wreq, decs, wpc>>
  /\ UNCHANGED <<empty_add, hook_vars, side_vars, pub_vars, oc_vars, protocol, rpc, buf,
                 builder_err, rcmd,
                 sent, next_seq, n_recv, parse_status, consumed, inlined, queued,
                 last_parse, uaf>>

\* Lines 585-597: SendStringArr returned; the counter is decremented.
WorkerPubDone ==
  /\ wpc = "pub"
  /\ ~Running
  /\ sent' = Append(sent, [who |-> "worker", seq |-> wreq.seq,
                           what |-> IF pub_pat[wreq.pub] = 0 THEN "message"
                                    ELSE "pmessage",
                           id |-> 0])
  /\ decs' = [decs EXCEPT ![wreq.pub] = @ + 1]
  /\ wreq' = NoReq
  /\ wpc' = "run"
  /\ UNCHANGED <<ctx_vars, empty_add, hook_vars, side_vars, pub_vars, oc_vars, protocol, rpc, buf,
                 dispatch_q, conn_closing, async_dispatch, builder_err, batch_mode,
                 evc_notified, rcmd, next_seq, n_recv, parse_status, consumed,
                 inlined, queued, last_parse, uaf>>

\* Lines 603-605: DispatchCommand returned.
WorkerExecDone ==
  /\ wpc = "exec"
  /\ ~Running
  /\ sent' = Append(sent, [who |-> "worker", seq |-> wreq.seq, what |-> wreq.cmd.op,
                           id |-> wreq.cmd.id])
  /\ async_dispatch' = FALSE
  /\ wreq' = NoReq
  /\ wpc' = "run"
  /\ UNCHANGED <<ctx_vars, empty_add, hook_vars, side_vars, pub_vars, decs, oc_vars, protocol,
                 rpc, buf,
                 dispatch_q, conn_closing, builder_err, batch_mode, evc_notified,
                 rcmd, next_seq, n_recv, parse_status, consumed, inlined, queued,
                 last_parse, uaf>>

\* A write to the socket fails while a fiber is writing a reply: the reply
\* builder records the error.
SocketWriteError ==
  /\ ~Running
  /\ ~builder_err
  /\ rpc = "inline" \/ wpc \in {"pub", "exec"}
  /\ builder_err' = TRUE
  /\ UNCHANGED <<ctx_vars, empty_add, hook_vars, side_vars, pub_vars, decs, oc_vars, protocol,
                 rpc, wpc,
                 buf, dispatch_q, conn_closing, async_dispatch, batch_mode,
                 evc_notified, wreq, rcmd, sent, next_seq, n_recv, parse_status,
                 consumed, inlined, queued, last_parse, uaf>>

\* HandleRequests, lines 223-229: the poller reports POLLERR or POLLHUP.
SocketBreak ==
  /\ ~Running
  /\ rpc \in {"recv", "inline", "yield"}
  /\ ~conn_closing
  /\ conn_closing' = TRUE
  /\ evc_notified' = Notify(TRUE)
  /\ UNCHANGED <<ctx_vars, empty_add, hook_vars, side_vars, pub_vars, decs, oc_vars, protocol,
                 rpc, wpc,
                 buf, dispatch_q, async_dispatch, builder_err, batch_mode, wreq,
                 rcmd, sent, next_seq, n_recv, parse_status, consumed, inlined,
                 queued, last_parse, uaf>>

\* Connection::SendMsgVecAsync (lines 248-267), called by publisher p on the
\* connection's thread.  After cc_ was released the call reads freed memory:
\* the counter may or may not be decremented.
SendMsgVecAsync(p) ==
  /\ pub_st[p] = "fetched"
  /\ ~Running
  /\ pub_st' = [pub_st EXCEPT ![p] = "sent"]
  /\ IF Released
     THEN /\ uaf' = TRUE
          /\ \E d \in {0, 1} : decs' = [decs EXCEPT ![p] = @ + d]
          /\ UNCHANGED <<dispatch_q, next_seq, evc_notified>>
     ELSE IF conn_closing
     THEN /\ decs' = [decs EXCEPT ![p] = @ + 1]
          /\ UNCHANGED <<dispatch_q, next_seq, evc_notified, uaf>>
     ELSE LET q2 == PushBack(dispatch_q,
                             [async |-> TRUE, seq |-> next_seq, cmd |-> NoCmd, pub |-> p])
          IN /\ dispatch_q' = q2
             /\ next_seq' = next_seq + 1
             /\ evc_notified' = Notify(NotifyOnPush(q2))
             /\ UNCHANGED <<decs, uaf>>
  /\ UNCHANGED <<ctx_vars, empty_add, hook_vars, side_vars, pub_tok, pub_pat, oc_vars, protocol,
                 rpc, wpc,
                 buf, conn_closing, async_dispatch, builder_err, batch_mode, wreq,
                 rcmd, sent, n_recv, parse_status, consumed, inlined, queued,
                 last_parse>>

Init == InitCtx /\ InitConn /\ protocol \in {"REDIS", "MEMCACHE"}

Next ==
  \/ ReaderRecv
  \/ ReaderRecvError
  \/ ReaderParseRedis
  \/ ReaderParseMemcache
  \/ ReaderInlineDone
  \/ ReaderResume
  \/ ReaderClose
  \/ ReaderJoin
  \/ ReaderOnClose
  \/ ReaderFinish
  \/ WorkerLoop
  \/ WorkerWake
  \/ WorkerPubDone
  \/ WorkerExecDone
  \/ SocketWriteError
  \/ SocketBreak
  \/ \E p \in Pubs : ~Running /\ PubFetch(p)
  \/ \E p \in Pubs : SendMsgVecAsync(p)
  \/ \E p \in Pubs : ~Running /\ PubRelease(p)

Spec == Init /\ [][Next]_vars

(***************************************************************************)
(* Properties of ConnectionContext, checked under SpecSub.                 *)
(***************************************************************************)
NotRegistered == \A sid \in Shards : chan_reg[sid] = {} /\ pat_reg[sid] = {}

\* C7: after OnClose has returned the connection has no subscription record,
\* force_dispatch is false, it is registered on no shard under any channel or
\* pattern, the borrow token OnClose waited on is zero and no publisher still
\* holds a reference to the connection.
C7_OnCloseLeavesNoBorrower ==
  oc_pc = "closed" =>
    /\ ~subscribe_info.exists
    /\ ~force_dispatch
    /\ NotRegistered
    /\ (oc_tok # 0 => tokens[oc_tok] = 0)
    /\ \A p \in Pubs : ~HoldsReference(p)

\* The size of the set after the first i arguments of the call were applied to
\* the set as it was before the call.
CountAfter(set, to_add, args, i) ==
  LET first == {args[k] : k \in 1 .. i}
  IN Cardinality(IF to_add THEN set \cup first ELSE set \ first)

AcksAsExpected(before, call, written) ==
  /\ Len(written) = Len(call.args)
  /\ \A i \in 1 .. Len(call.args) :
       /\ written[i].action = AckAction(call.to_add, call.pat)
       /\ written[i].name = call.args[i]
       /\ written[i].count = CountAfter(before, call.to_add, call.args, i)

\* C9: a call with reply enabled writes one acknowledgement per argument, in
\* the order of the arguments, and the i-th carries the size the channel set
\* (pattern set for the p-variants) has once the first i arguments are applied.
C9_AckPerArgumentWithRunningCount ==
  [][(last_call'.to_reply /\ <<last_call, acks, subscribe_info>>' #
                             <<last_call, acks, subscribe_info>>)
       => AcksAsExpected(IF last_call'.pat THEN subscribe_info.patterns
                         ELSE subscribe_info.channels,
                         last_call', acks')]_vars

\* A call whose acknowledgements carry different counts: the count runs with
\* the arguments.
C9_Witness ==
  /\ last_call.to_reply
  /\ Len(acks) = 2
  /\ acks[1].count = 1
  /\ acks[2].count = 2

RecordIffSubscribed ==
  /\ subscribe_info.exists <=>
       (subscribe_info.channels # {} \/ subscribe_info.patterns # {})
  /\ force_dispatch <=> subscribe_info.exists

\* C10: after any sequence of calls with any argument lists the record exists
\* iff the channel set or the pattern set is non-empty, and force_dispatch is
\* true iff the record exists.
C10_RecordIffSubscribedAnyArgs == RecordIffSubscribed

\* What does hold: the same equivalences as long as no subscribe or psubscribe
\* call had an empty argument list.
RecordIffSubscribedUnlessEmptyAdd == ~empty_add => RecordIffSubscribed

\* An unsubscribe that removed the last subscription and released the record.
LastUnsubscribeReleased ==
  /\ ~empty_add
  /\ ~last_call.to_add
  /\ last_call.args # <<>>
  /\ next_tok > 1
  /\ ~subscribe_info.exists
  /\ oc_pc = "open"

(***************************************************************************)
(* Properties of the connection pipeline, checked under Spec.              *)
(***************************************************************************)
WorkerReplies == {i \in DOMAIN sent : sent[i].who = "worker"}

\* C1: replies of queued frames (commands and pub/sub messages) are written in
\* the order in which the frames were appended to the dispatch queue: a frame
\* enqueued before another never has its reply written after the other's.
C1_RepliesInEnqueueOrder ==
  \A i, j \in WorkerReplies : i < j => sent[i].seq < sent[j].seq

\* A pub/sub message and a command reply, both written by the dispatch fiber
\* from frames that were queued after one another.
C1_Witness ==
  \E i, j \in WorkerReplies :
    /\ sent[i].seq + 1 = sent[j].seq
    /\ {sent[i].what, sent[j].what} = {"message", "cmd"}

\* C2: the connection fiber and the dispatch fiber are never both in the
\* middle of writing to the reply builder: while the connection fiber is
\* inside an inline dispatch the dispatch fiber emits neither a command reply
\* nor a pub/sub message.
C2_OneWriter == ~(rpc = "inline" /\ wpc \in {"pub", "exec"})

\* C3: on the RESP path and on the memcache path alike, a parsed command is
\* dispatched inline iff the dispatch queue is empty, async_dispatch is false,
\* force_dispatch is false and no pipelined follow-up is in the buffer.
C3_InlineIffFourConditions ==
  last_parse.valid =>
    (last_parse.inline <=>
       /\ last_parse.q_empty
       /\ ~last_parse.async
       /\ ~last_parse.force
       /\ last_parse.all_consumed)

\* C4: a parsed command consumed from the read buffer was either executed
\* inline or appended to the dispatch queue, and a dispatch fiber that waits
\* with requests queued has been notified.
C4_ConsumedIsInlinedOrQueued ==
  /\ consumed \subseteq (inlined \cup queued)
  /\ inlined \cap queued = {}
  /\ (wpc = "await" /\ dispatch_q # <<>>) => evc_notified

\* A command was queued and consumed, and the waiting dispatch fiber woken.
C4_Witness ==
  /\ wpc = "await"
  /\ evc_notified
  /\ \E i \in DOMAIN dispatch_q :
       ~dispatch_q[i].async /\ dispatch_q[i].cmd.id \in (consumed \cap queued)

\* C5: async_dispatch is true exactly while the dispatch fiber is inside
\* DispatchCommand for a queued command, and the connection fiber never
\* starts an inline dispatch while async_dispatch is true.
C5_AsyncDispatchLocksInline ==
  /\ [](async_dispatch <=> wpc = "exec")
  /\ [][(rpc # "inline" /\ rpc' = "inline") => ~async_dispatch]_vars

\* The dispatch fiber popped the last frame and is executing it when a lone
\* command is parsed: the queue is empty, and the command is queued.
C5_Witness ==
  /\ wpc = "exec"
  /\ last_parse.valid
  /\ ~last_parse.inline
  /\ last_parse.q_empty
  /\ last_parse.async
  /\ ~last_parse.force
  /\ last_parse.all_consumed

\* C6: every completion counter handed to SendMsgVecAsync is decremented
\* exactly once: never twice, and none is left undecremented once the dispatch
\* fiber has exited.
C6_CounterDecrementedOnce ==
  \A p \in Pubs :
    /\ decs[p] <= 1
    /\ (pub_st[p] \in {"sent", "done"} /\ wpc = "done") => decs[p] = 1

\* C8: the context is released only after the reader loop ended, conn_closing
\* was set, the dispatch fiber exited leaving no pub/sub frame queued, and
\* OnClose returned; and no pub/sub frame or counter is touched after the
\* context was released.
C8_ReleasedLast ==
  /\ Released =>
       /\ conn_closing
       /\ wpc = "done"
       /\ \A i \in DOMAIN dispatch_q : ~dispatch_q[i].async
       /\ oc_pc = "closed"
  /\ ~uaf

(***************************************************************************)
(* The shard updates of ChangeSubscription and ChangePSub, checked under   *)
(* SpecSub.                                                                *)
(***************************************************************************)
\* A call of ChangeSubscription or ChangePSub has just been made.
CallMade ==
  <<last_call, acks, subscribe_info, last_ops, shard_ran>>' #
    <<last_call, acks, subscribe_info, last_ops, shard_ran>>

SymDiff(a, b) == (a \ b) \cup (b \ a)

NoRepeat(s) == Len(s) = Cardinality(Range(s))

\* C11: every channel whose membership in the connection's channel set changed
\* is applied exactly once, on the shard Shard(channel) and on no other; the
\* range of a shard holds exactly the channels it owns; a shard task runs only
\* on shards whose range is non-empty.
C11_ChangedChannelsOnOwningShard ==
  [][(CallMade /\ ~last_call'.pat) =>
       LET changed == SymDiff(subscribe_info.channels, subscribe_info'.channels)
       IN \A sid \in Shards :
            /\ Range(last_ops'[sid]) = {c \in changed : Shard(c) = sid}
            /\ NoRepeat(last_ops'[sid])
            /\ sid \in shard_ran' <=> last_ops'[sid] # <<>>
            /\ chan_reg'[sid] = {c \in subscribe_info'.channels : Shard(c) = sid}]_vars

\* A subscribe whose arguments are not in shard order changed a channel on
\* every shard.
C11_Witness ==
  /\ ~last_call.pat
  /\ last_call.to_add
  /\ Len(last_call.args) = 2
  /\ Shard(last_call.args[1]) > Shard(last_call.args[2])
  /\ \A sid \in Shards : Len(last_ops[sid]) = 1
  /\ shard_ran = Shards

\* C12: every pattern whose membership in the connection's pattern set changed
\* is added to (or removed from) the pattern registry of every shard, so after
\* the call all shards hold the same patterns for this connection.
C12_ChangedPatternsOnEveryShard ==
  [][(CallMade /\ last_call'.pat) =>
       LET changed == SymDiff(subscribe_info.patterns, subscribe_info'.patterns)
       IN \A sid \in Shards :
            /\ Range(last_ops'[sid]) = changed
            /\ NoRepeat(last_ops'[sid])
            /\ pat_reg'[sid] = subscribe_info'.patterns]_vars

\* A punsubscribe removed one of two patterns on every shard.
C12_Witness ==
  /\ last_call.pat
  /\ ~last_call.to_add
  /\ Cardinality(subscribe_info.patterns) = 1
  /\ \A sid \in Shards : Len(last_ops[sid]) = 1 /\ pat_reg[sid] = subscribe_info.patterns

(***************************************************************************)
(* Protocol errors and the exit of the dispatch fiber, checked under Spec. *)
(***************************************************************************)
Replies(what) == {i \in DOMAIN sent : sent[i].what = what}

\* The replies the dispatch fiber wrote for command frames.
WorkerCommandReplies ==
  {i \in WorkerReplies : sent[i].what \notin {"message", "pmessage"}}

\* C13: on a RESP protocol error exactly one protocol error reply is written,
\* after the replies of all command frames queued before the offending
\* request; no earlier queued command loses its reply.
C13_ProtocolErrorAfterQueuedReplies ==
  (Released /\ parse_status = "ERROR" /\ ~builder_err) =>
     /\ Cardinality(Replies("protocol_error")) = 1
     /\ \A e \in Replies("protocol_error") : \A i \in WorkerReplies : i < e
     /\ Cardinality(WorkerCommandReplies) = Cardinality(queued)

\* The parser has reported a parse error on this connection.
ParseErrorSeen == parse_status = "ERROR" \/ Replies("error") # {}

\* C14: after a parse error, on a RESP and on a memcache connection alike, the
\* reader has stopped reading and the connection is being terminated; when it
\* is gone a protocol error reply has been sent.
C14_ParseErrorTerminates ==
  ParseErrorSeen =>
    /\ rpc \in {"close", "join", "onclose", "done"}
    /\ rpc \in {"join", "onclose", "done"} => conn_closing
    /\ rpc \in {"onclose", "done"} => wpc = "done"
    /\ Released => Replies("protocol_error") \cup Replies("error") # {}

\* The fibers are scheduled again whenever they can run, a command the
\* dispatch fiber executes returns, and its write to the socket completes.
Fairness ==
  /\ WF_vars(WorkerLoop)
  /\ WF_vars(WorkerWake)
  /\ WF_vars(WorkerPubDone)
  /\ WF_vars(WorkerExecDone)
  /\ WF_vars(ReaderParseRedis)
  /\ WF_vars(ReaderParseMemcache)
  /\ WF_vars(ReaderClose)

\* The steps of the connection with one publisher.
NextLive ==
  \/ ReaderRecv
  \/ ReaderRecvError
  \/ ReaderParseRedis
  \/ ReaderParseMemcache
  \/ ReaderInlineDone
  \/ ReaderResume
  \/ ReaderClose
  \/ ReaderJoin
  \/ ReaderOnClose
  \/ ReaderFinish
  \/ WorkerLoop
  \/ WorkerWake
  \/ WorkerPubDone
  \/ WorkerExecDone
  \/ SocketWriteError
  \/ SocketBreak
  \/ \E p \in TestPubs : ~Running /\ PubFetch(p)
  \/ \E p \in TestPubs : SendMsgVecAsync(p)
  \/ \E p \in TestPubs : ~Running /\ PubRelease(p)

SpecLive == Init /\ [][NextLive]_vars /\ Fairness

\* C15: once conn_closing is set and the dispatch fiber notified, the fiber
\* eventually exits; when it has exited the dispatch queue is empty and
\* conn_closing is set, also when it exits on a reply builder error; a fiber
\* that waits while conn_closing is set has been notified.
C15_WorkerExitsAfterClosing ==
  /\ conn_closing ~> wpc = "done"
  /\ [][(wpc # "done" /\ wpc' = "done") =>
          (dispatch_q' = <<>> /\ conn_closing' /\ (conn_closing \/ builder_err))]_vars
  /\ []((conn_closing /\ wpc = "await") => evc_notified)
  /\ []((builder_err /\ wpc \in {"pub", "exec"}) ~> wpc = "done")

\* The dispatch fiber exited on a reply builder error with requests queued
\* and set conn_closing itself.
C15_Witness ==
  /\ wpc = "done"
  /\ builder_err
  /\ conn_closing
  /\ rpc \in {"recv", "inline", "yield"}
  /\ dispatch_q = <<>>
  /\ Cardinality(queued) > Cardinality(WorkerCommandReplies)

(***************************************************************************)
(* The completion counter of a pub/sub frame, checked under Spec.          *)
(***************************************************************************)
\* C16: the completion counter of a pub/sub frame is decremented as soon as
\* the connection has taken the frame over, not after its reply was written:
\* a publisher that handed its message over is never kept waiting by the
\* subscriber's queue or socket write.
C16_DecrementedAtHandoff ==
  /\ \A p \in Pubs : pub_st[p] \in {"sent", "done"} => decs[p] = 1
  /\ wpc = "pub" => decs[wreq.pub] = 1

(***************************************************************************)
(* Subscribe followed by unsubscribe, checked under SpecSub.               *)
(***************************************************************************)
\* The last call subscribed a connection without subscriptions to the
\* duplicate-free list args, and nothing changed since.
SubscribedFromNothing(args) ==
  /\ last_call = [pat |-> FALSE, to_add |-> TRUE, to_reply |-> TRUE, args |-> args]
  /\ args # <<>>
  /\ NoRepeat(args)
  /\ Len(acks) = Len(args)
  /\ \A i \in DOMAIN acks : acks[i].count = i
  /\ subscribe_info.exists
  /\ subscribe_info.channels = Range(args)
  /\ subscribe_info.patterns = {}
  /\ \A sid \in Shards : pat_reg[sid] = {}

\* C17: subscribing a connection without subscriptions to a duplicate-free
\* list of channels and then unsubscribing the same list restores the prior
\* state: no record, force_dispatch false, the last acknowledgement carries
\* count 0 and no shard's registry holds an entry of the connection.
C17_UnsubscribeMirrorsSubscribe ==
  [][\A args \in ChannelArgs :
       (/\ SubscribedFromNothing(args)
        /\ CallMade
        /\ last_call' = [pat |-> FALSE, to_add |-> FALSE, to_reply |-> TRUE,
                         args |-> args])
       => /\ ~subscribe_info'.exists
          /\ ~force_dispatch'
          /\ Len(acks') = Len(args)
          /\ acks'[Len(args)].count = 0
          /\ \A sid \in Shards : chan_reg'[sid] = {}]_vars

\* Two channels on different shards were unsubscribed in one call that
\* removed the last subscription.
C17_Witness ==
  /\ last_call.to_reply
  /\ ~last_call.pat
  /\ ~last_call.to_add
  /\ Len(last_call.args) = 2
  /\ NoRepeat(last_call.args)
  /\ acks[1].count = 1
  /\ acks[2].count = 0
  /\ \A sid \in Shards : Len(last_ops[sid]) = 1 /\ chan_reg[sid] = {}
  /\ ~subscribe_info.exists
  /\ ~force_dispatch

(***************************************************************************)
(* ChangeSubscription applied to argument lists with repeated channels.    *)
(***************************************************************************)
MaxDupArgs == 3

DupArgs == SeqsUpTo(Channels, MaxDupArgs)

CallWithDuplicates ==
  /\ oc_pc = "open"
  /\ \E to_add \in BOOLEAN, args \in DupArgs :
       /\ TokenLeft(to_add)
       /\ ChangeSubscription(to_add, TRUE, args)
       /\ empty_add' = (empty_add \/ (to_add /\ args = <<>>))
  /\ UNCHANGED <<hook_vars, side_vars>>
  /\ UNCHANGED <<pub_vars, decs, oc_vars, conn_vars>>

NextArgs ==
  \/ CallWithDuplicates
  \/ CallOnClose

SpecArgs == InitSub /\ [][NextArgs]_vars

Occurrences(s, c) == Cardinality({i \in DOMAIN s : s[i] = c})

\* A later occurrence of a channel in args.
Repeated(args, j) == \E i \in 1 .. (j - 1) : args[i] = args[j]

FirstOccurrence(args, j) == CHOOSE i \in 1 .. j : args[i] = args[j] /\ ~Repeated(args, i)

SubscribeMade == CallMade /\ ~last_call'.pat /\ last_call'.to_add

\* C18 as claimed: a channel that occurs more than once in a subscribe list
\* gets exactly one registry insertion on its shard and one acknowledgement
\* per occurrence, the later ones carrying the same count as the first.
C18_DuplicatesCountAsFirst ==
  [][SubscribeMade =>
       LET args == last_call'.args
       IN /\ Len(acks') = Len(args)
          /\ \A j \in DOMAIN args :
               Repeated(args, j) =>
                 /\ Occurrences(last_ops'[Shard(args[j])], args[j]) = 1
                 /\ acks'[j].count = acks'[FirstOccurrence(args, j)].count]_vars

\* C18: a channel that occurs more than once in a subscribe list gets one
\* registry insertion on its shard if it was not subscribed before and none
\* otherwise, never one on another shard, and one acknowledgement per
\* occurrence, a later occurrence carrying the count of the acknowledgement
\* before it.
C18_DuplicatesLeaveCountUnchanged ==
  [][SubscribeMade =>
       LET args == last_call'.args
       IN /\ Len(acks') = Len(args)
          /\ \A j \in DOMAIN args :
               Repeated(args, j) =>
                 /\ Occurrences(last_ops'[Shard(args[j])], args[j]) =
                      (IF args[j] \in subscribe_info.channels THEN 0 ELSE 1)
                 /\ \A sid \in Shards \ {Shard(args[j])} :
                      Occurrences(last_ops'[sid], args[j]) = 0
                 /\ acks'[j].count = acks'[j - 1].count]_vars

\* A subscribe of a, b, a on a connection without subscriptions: one
\* insertion for a, counts 1, 2, 2.
C18_Witness ==
  /\ ~last_call.pat
  /\ last_call.to_add
  /\ Len(last_call.args) = 3
  /\ last_call.args[1] = last_call.args[3]
  /\ last_call.args[1] # last_call.args[2]
  /\ Occurrences(last_ops[Shard(last_call.args[1])], last_call.args[1]) = 1
  /\ acks[1].count = 1
  /\ acks[2].count = 2
  /\ acks[3].count = 2

(***************************************************************************)
(* Pipelined RESP commands, checked under Spec.                            *)
(***************************************************************************)
CommandReplies == {i \in DOMAIN sent : sent[i].id > 0}

\* The replies of the commands come out in the order the client sent them.
RepliesInCommandOrder ==
  \A i, j \in CommandReplies : i < j => sent[i].id < sent[j].id

\* The connection fiber starts an inline dispatch of a RESP command that
\* arrived in a read of two or more commands.
InlineOfPipelined ==
  /\ protocol = "REDIS"
  /\ rpc # "inline"
  /\ rpc' = "inline"
  /\ rcmd'.blen >= 2

\* C19 as claimed: when a read holds k >= 2 pipelined RESP commands, for any
\* k, the replies come out in command order and no command other than
\* possibly the first is dispatched inline.
C19_OnlyFirstInline ==
  /\ []RepliesInCommandOrder
  /\ [][InlineOfPipelined => rcmd'.pos = 1]_vars

\* C19: when a read holds k >= 2 pipelined RESP commands the replies come out
\* in command order, and a command of the read is dispatched inline only if
\* it is not the first and the reader has yielded, on a queue longer than
\* kYieldQueueLen, earlier in the same read.
C19_InlineOnlyAfterYield ==
  /\ []RepliesInCommandOrder
  /\ [][InlineOfPipelined => (rcmd'.pos > 1 /\ last_parse'.yielded)]_vars

\* A long pipeline whose replies were all written, the first ones by the
\* dispatch fiber and the last one inline after the reader had yielded.
C19_Witness ==
  /\ Cardinality(CommandReplies) = kYieldQueueLen + 2
  /\ \E i \in CommandReplies : sent[i].who = "reader" /\ sent[i].id = kYieldQueueLen + 2
  /\ \A i \in CommandReplies : sent[i].id <= kYieldQueueLen + 1 => sent[i].who = "worker"

(***************************************************************************)
(* Shutdown hooks (dragonfly_connection.cc, lines 88-100 and 147-170).     *)
(***************************************************************************)
MaxHooks == 3

\* Everything of the connection but its shutdown hooks.
rest_vars == <<ctx_vars, empty_add, side_vars, pub_vars, decs, oc_vars, protocol, rpc, wpc, buf,
               dispatch_q, conn_closing, async_dispatch, builder_err, batch_mode,
               evc_notified, wreq, rcmd, sent, next_seq, n_recv, parse_status,
               consumed, inlined, queued, last_parse, uaf>>

\* Shutdown::Add: map[next_handle] = cb; return next_handle++.
ShutdownAdd(sh, cb) ==
  [exists |-> TRUE,
   map |-> {e \in sh.map : e.handle # sh.next_handle}
             \cup {[handle |-> sh.next_handle, cb |-> cb]},
   next_handle |-> sh.next_handle + 1]

\* Mutation of ShutdownRemove: nothing is erased.
ShutdownKeep(sh, id) == sh.map

\* Shutdown::Remove: map.erase(sh).
ShutdownRemove(sh, id) == {e \in sh.map : e.handle # id}

\* The orders in which a flat_hash_map can be iterated: the standard library
\* fixes none, any order of the entries can come out.
IterationOrders(map) ==
  {s \in [1 .. Cardinality(map) -> map] : \A i, j \in DOMAIN s : i # j => s[i] # s[j]}

\* Connection::RegisterShutdownHook, lines 157-162.
RegisterShutdownHook ==
  /\ next_cb < MaxHooks
  /\ LET sh == IF shutdown.exists THEN shutdown ELSE NoShutdown
         cb == next_cb + 1
     IN /\ shutdown' = ShutdownAdd(sh, cb)
        /\ live' = Append(live, [handle |-> sh.next_handle, cb |-> cb])
        /\ next_cb' = cb
        /\ returned' = Append(returned, sh.next_handle)
  /\ sh_called' = FALSE
  /\ UNCHANGED <<invoked, rest_vars>>

\* Connection::UnregisterShutdownHook, lines 164-170, with a handle that
\* RegisterShutdownHook returned and that was not unregistered yet.
UnregisterShutdownHook ==
  /\ \E k \in DOMAIN live :
       LET id == live[k].handle
           map2 == ShutdownRemove(shutdown, id)
       IN /\ shutdown' = IF ~shutdown.exists THEN shutdown
                         ELSE IF map2 = {} THEN NoShutdown
                         ELSE [shutdown EXCEPT !.map = map2]
          /\ live' = [i \in 1 .. (Len(live) - 1) |-> IF i < k THEN live[i] ELSE live[i + 1]]
  /\ sh_called' = FALSE
  /\ UNCHANGED <<next_cb, invoked, returned, rest_vars>>

\* Connection::OnShutdown, lines 147-155.
OnShutdown ==
  /\ IF shutdown.exists
     THEN \E order \in IterationOrders(shutdown.map) :
            invoked' = [i \in DOMAIN order |-> order[i].cb]
     ELSE invoked' = <<>>
  /\ sh_called' = TRUE
  /\ UNCHANGED <<shutdown, live, next_cb, returned, rest_vars>>

NextHooks ==
  \/ RegisterShutdownHook
  \/ UnregisterShutdownHook
  \/ OnShutdown

SpecHooks == InitSub /\ [][NextHooks]_vars

\* The callbacks registered and not unregistered, in registration order.
LiveCallbacks == [i \in DOMAIN live |-> live[i].cb]

\* C20: OnShutdown invokes every callback that is registered and not
\* unregistered exactly once, in the order in which the callbacks were
\* registered; an unregistered callback is never invoked.
C20_HooksInRegistrationOrder == sh_called => invoked = LiveCallbacks

\* What does hold: OnShutdown invokes exactly the callbacks that are
\* registered and not unregistered, each once, in some order.
HooksInvokedOnce ==
  sh_called => (Range(invoked) = Range(LiveCallbacks) /\ NoRepeat(invoked))

(***************************************************************************)
(* The read buffer of IoLoop (dragonfly_connection.cc, lines 488-554).     *)
(***************************************************************************)
\* Everything but the read buffer's size.
not_iobuf == <<ctx_vars, empty_add, hook_vars, http, mc, sset, pubs, bkt, pub_vars, decs, oc_vars,
               conn_vars>>

\* Mutation of GrowAllowed: the buffer may grow at any capacity.
GrowAlways(capacity) == TRUE

\* Line 525: the buffer is only grown below kMaxReadSize.
GrowAllowed(capacity) == capacity < kMaxReadSize

Min(a, b) == IF a <= b THEN a ELSE b

\* Lines 524-541: the capacity after a read that ended in NEED_MORE.
\* append_size is append_buf.size(), recv_sz what Recv returned.
GrowOnNeedMore(capacity, parser_hint, append_size, recv_sz) ==
  IF ~GrowAllowed(capacity) THEN [capacity |-> capacity, grew |-> "none"]
  ELSE IF parser_hint > capacity
       THEN [capacity |-> Reserve(capacity, Min(kMaxReadSize, parser_hint)), grew |-> "hint"]
  ELSE IF append_size = recv_sz /\ 2 * append_size > capacity
       THEN [capacity |-> Reserve(capacity, capacity * 2), grew |-> "double"]
  ELSE [capacity |-> capacity, grew |-> "none"]

\* One iteration of IoLoop's loop: Recv into the free part of io_buf_, parse,
\* and on NEED_MORE size the buffer.  The parser consumed everything or left
\* the buffer as it is; with the memcache parser the hint is 0.
IoLoopIteration ==
  LET append_size == iobuf.capacity - iobuf.len
  IN /\ append_size > 0
     /\ \E recv_sz \in {append_size, (append_size + 1) \div 2}, status \in {"OK", "NEED_MORE"},
           parser_hint \in Hints, rest \in {0, 1} :
          LET len2 == IF rest = 0 THEN 0 ELSE iobuf.len + recv_sz
          IN iobuf' =
               IF status = "NEED_MORE"
               THEN LET g == GrowOnNeedMore(iobuf.capacity, parser_hint, append_size, recv_sz)
                    IN [capacity |-> g.capacity, len |-> len2, hint |-> parser_hint,
                        grew |-> g.grew]
               ELSE [capacity |-> iobuf.capacity, len |-> 0, hint |-> 0, grew |-> "none"]
     /\ UNCHANGED not_iobuf

NextBuf == IoLoopIteration

SpecBuf == InitSub /\ [][NextBuf]_vars

CR == "\r"
LF == "\n"
kHttpProbeLimit == 1024
kHttpMinLine == 10

\* What clients send first: an HTTP request, Redis and memcache commands, request
\* lines that miss one condition of the HTTP test, and lines without an early newline.
ProbeInputs ==
  LET HttpGet == <<"G", "E", "T", " ", "/", " ", "H", "T", "T", "P", "/", "1", ".", "1", CR, LF, "H", "o", "s", "t", ":", " ", "a", CR, LF, CR, LF>>
      RespPing == <<"*", "1", CR, LF, "$", "4", CR, LF, "P", "I", "N", "G", CR, LF>>
      HttpOld == <<"G", "E", "T", " ", "/", "i", "n", "d", "e", "x", " ", "H", "T", "T", "P", "/", "1", ".", "0", CR, LF>>
      HttpNoCr == <<"G", "E", "T", " ", "/", "x", " ", "H", "T", "T", "P", "/", "1", ".", "1", LF, "P", "I", "N", "G", CR, LF>>
      McGet == <<"g", "e", "t", " ", "k", "1", " ", "k", "2", " ", "k", "3", CR, LF, "g", "e", "t", " ", "k", CR, LF>>
      HttpPut == <<"P", "U", "T", " ", "/", "a", "b", "c", " ", "H", "T", "T", "P", "/", "1", ".", "1", CR, LF>>
      ShortGet == <<"G", "E", "T", " ", "/", "1", ".", "1", CR, LF>>
      LongLine == [i \in 1 .. (kHttpProbeLimit + 76) |-> "x"]
      LateNewline == [i \in 1 .. (kMinReadSize + 44) |-> "x"] \o <<CR, LF>>
  IN  {HttpGet, RespPing, HttpOld, HttpNoCr, McGet, HttpPut, ShortGet, LongLine,
       LateNewline}

\* Everything but the probe.
not_http == <<ctx_vars, empty_add, hook_vars, iobuf, mc, sset, pubs, bkt, pub_vars, decs, oc_vars,
              conn_vars>>

StartsWith(s, pre) == Len(s) >= Len(pre) /\ SubSeq(s, 1, Len(pre)) = pre
EndsWith(s, suf) == Len(s) >= Len(suf) /\ SubSeq(s, Len(s) - Len(suf) + 1, Len(s)) = suf

\* Mutation of MatchHttp11Line: the method alone decides.
MatchGetOnly(line) == StartsWith(line, <<"G", "E", "T", " ">>)

\* MatchHttp11Line, lines 64-66.
MatchHttp11Line(line) ==
  /\ StartsWith(line, <<"G", "E", "T", " ">>)
  /\ EndsWith(line, <<"H", "T", "T", "P", "/", "1", ".", "1">>)

\* string_view::find('\n'): the first position (from 0) or -1 for npos.
FindLF(s) ==
  IF \E i \in DOMAIN s : s[i] = LF
  THEN (CHOOSE i \in DOMAIN s : s[i] = LF /\ \A j \in 1 .. (i - 1) : s[j] # LF) - 1
  ELSE -1

\* Lines 296-307 after CommitWrite: "http", "resp" (not HTTP) or "more".
ProbeDecision(input_buffer, last_len) ==
  LET ib == SubSeq(input_buffer, last_len + 1, Len(input_buffer))
      pos == FindLF(ib)
      line == SubSeq(input_buffer, 1, last_len + pos)
  IN IF pos # -1
     THEN IF Len(line) < kHttpMinLine \/ line[Len(line)] # CR THEN "resp"
          ELSE IF MatchHttp11Line(SubSeq(line, 1, Len(line) - 1)) THEN "http" ELSE "resp"
     ELSE IF Len(input_buffer) < kHttpProbeLimit THEN "more" ELSE "resp"

\* The parser consumes the complete lines of the buffer.
ConsumedLen(input_buffer) ==
  IF \E i \in DOMAIN input_buffer : input_buffer[i] = LF
  THEN CHOOSE i \in DOMAIN input_buffer :
         input_buffer[i] = LF /\ \A j \in (i + 1) .. Len(input_buffer) : input_buffer[j] # LF
  ELSE 0

\* What one Recv can return: a byte, a few bytes, or all that fits; reading
\* byte by byte cuts the input at every place.
RecvSizes(append_size, avail) ==
  {n \in {1, 7, Min(append_size, avail)} : n >= 1 /\ n <= Min(append_size, avail)}

\* HandleRequests up to the probe, lines 198-201: with the admin console
\* switched off the answer is "not HTTP" without a read.
HttpAccept ==
  /\ http.pc = "idle"
  /\ \E input \in ProbeInputs, http_admin_console \in BOOLEAN :
       http' = [NoProbe EXCEPT !.input = input,
                               !.pc = IF http_admin_console THEN "probe" ELSE "flow",
                               !.result = IF http_admin_console THEN "none" ELSE "resp"]
  /\ UNCHANGED not_http

\* One round of CheckForHttpProto's loop, lines 289-307.  io_buf_ has the
\* capacity it was built with; Recv fills a part of AppendBuffer() and fails
\* when the peer is gone or the buffer it is given is empty.
ProbeRecv ==
  /\ http.pc = "probe"
  /\ LET append_size == kMinReadSize - Len(http.io)
         avail == Len(http.input) - http.off
     IN \/ /\ append_size = 0 \/ avail = 0
           /\ http' = [http EXCEPT !.pc = "closed", !.result = "error"]
        \/ \E recv_sz \in RecvSizes(append_size, avail) :
             LET io2 == http.io \o SubSeq(http.input, http.off + 1, http.off + recv_sz)
                 d == ProbeDecision(io2, http.last_len)
             IN http' = [http EXCEPT !.io = io2, !.off = http.off + recv_sz,
                                     !.last_len = IF d = "more" THEN Len(io2) ELSE @,
                                     !.result = IF d = "more" THEN "none" ELSE d,
                                     !.at_decision = IF d = "more" THEN <<>> ELSE io2,
                                     !.pc = CASE d = "more" -> "probe"
                                              [] d = "http" -> "http"
                                              [] OTHER -> "flow"]
  /\ UNCHANGED not_http

\* HandleRequests, lines 204-212: the HTTP connection takes the buffer.
HttpServe ==
  /\ http.pc = "http"
  /\ http' = [http EXCEPT !.io = <<>>, !.pc = "done"]
  /\ UNCHANGED not_http

\* ConnectionFlow before the main loop, lines 318-330.
FlowFirstParse ==
  /\ http.pc = "flow"
  /\ LET n_consumed == IF Len(http.io) > 0 THEN ConsumedLen(http.io) ELSE 0
         io2 == SubSeq(http.io, n_consumed + 1, Len(http.io))
     IN http' = [http EXCEPT !.parsed = @ \o SubSeq(http.io, 1, n_consumed),
                             !.io = io2, !.before_loop = io2, !.pc = "loop"]
  /\ UNCHANGED not_http

\* One round of IoLoop, lines 494-520: Recv, then the parser.
LoopRecv ==
  /\ http.pc = "loop"
  /\ LET append_size == kMinReadSize - Len(http.io)
         avail == Len(http.input) - http.off
     IN \E recv_sz \in RecvSizes(append_size, avail) :
          LET io2 == http.io \o SubSeq(http.input, http.off + 1, http.off + recv_sz)
              n_consumed == ConsumedLen(io2)
          IN http' = [http EXCEPT !.parsed = @ \o SubSeq(io2, 1, n_consumed),
                                  !.io = SubSeq(io2, n_consumed + 1, Len(io2)),
                                  !.off = http.off + recv_sz, !.reads = @ + 1]
  /\ UNCHANGED not_http

NextProbe ==
  \/ HttpAccept
  \/ ProbeRecv
  \/ HttpServe
  \/ FlowFirstParse
  \/ LoopRecv

SpecProbe == InitSub /\ [][NextProbe]_vars

\* The first line of what the client sent: the bytes before the first newline.
FirstLine(input) == SubSeq(input, 1, FindLF(input))

\* The bytes the connection has read so far.
Delivered == SubSeq(http.input, 1, http.off)

\* A probe that said "not HTTP" keeps every byte it read, and the bytes are
\* parsed before the main loop reads; nothing is lost or parsed twice.
ProbeBytesRetained ==
  /\ http.result = "resp" => http.parsed \o http.io = Delivered
  /\ http.pc = "flow" => http.io = Delivered /\ http.at_decision = http.io
  /\ (http.pc = "loop" /\ http.reads = 0) =>
       /\ http.before_loop = http.io
       /\ ConsumedLen(http.io) = 0
       /\ http.parsed \o http.io = http.at_decision

\* The probe says HTTP only for a first line of at least 10 bytes that ends
\* in CR, starts with "GET " and ends with "HTTP/1.1" before the CR.
HttpOnlyForGetLine ==
  http.result = "http" =>
    LET line == FirstLine(http.input)
    IN /\ FindLF(http.input) # -1
       /\ Len(line) >= kHttpMinLine
       /\ line[Len(line)] = CR
       /\ MatchHttp11Line(SubSeq(line, 1, Len(line) - 1))

\* A probe that is over after the client sent 1024 bytes without a newline
\* said "not HTTP".
GivesUpAtLimit ==
  (/\ http.pc # "idle"
   /\ Len(http.input) >= kHttpProbeLimit
   /\ FindLF(SubSeq(http.input, 1, kHttpProbeLimit)) = -1
   /\ http.pc # "probe") => http.result = "resp"

\* C22: when the probe decides the connection is not HTTP, every byte read
\* during the probe stays in the read buffer and is parsed before the first
\* socket read of the main loop, none lost or parsed twice; the probe answers
\* HTTP only if the first line (at least 10 bytes, ending in CR) starts with
\* "GET " and ends with "HTTP/1.1", and it gives up as non-HTTP once 1024
\* bytes were read without a newline.
C22_ProbeKeepsBytesAndGivesUp == ProbeBytesRetained /\ HttpOnlyForGetLine /\ GivesUpAtLimit

(***************************************************************************)
(* Memcache store commands (dragonfly_connection.cc, lines 433-486).       *)
(***************************************************************************)
\* The command streams memcache clients send.
McStreams ==
  LET SetThenGet ==
        <<[hdr |-> <<"s", "e", "t", " ", "k", " ", "0", " ", "0", " ", "5", CR, LF>>, store |-> TRUE, value |-> <<"h", "e", "l", "l", "o">>, trail |-> <<CR, LF>>],
          [hdr |-> <<"g", "e", "t", " ", "k", CR, LF>>, store |-> FALSE, value |-> <<>>, trail |-> <<>>]>>
      ValueLikeCommand ==
        <<[hdr |-> <<"s", "e", "t", " ", "k", " ", "0", " ", "0", " ", "7", CR, LF>>, store |-> TRUE, value |-> <<"g", "e", "t", " ", "a", CR, LF>>, trail |-> <<CR, LF>>],
          [hdr |-> <<"g", "e", "t", " ", "a", CR, LF>>, store |-> FALSE, value |-> <<>>, trail |-> <<>>]>>
      EmptyAndOddTrailer ==
        <<[hdr |-> <<"s", "e", "t", " ", "k", " ", "0", " ", "0", " ", "0", CR, LF>>, store |-> TRUE, value |-> <<>>, trail |-> <<CR, LF>>],
          [hdr |-> <<"s", "e", "t", " ", "j", " ", "0", " ", "0", " ", "2", CR, LF>>, store |-> TRUE, value |-> <<"a", "b">>, trail |-> <<"x", "y">>],
          [hdr |-> <<"g", "e", "t", " ", "j", CR, LF>>, store |-> FALSE, value |-> <<>>, trail |-> <<>>]>>
      TwoDigitLength ==
        <<[hdr |-> <<"s", "e", "t", " ", "k", " ", "0", " ", "0", " ", "1", "2", CR, LF>>, store |-> TRUE, value |-> <<"0", "1", "2", "3", "4", "5", "6", "7", "8", "9", "a", "b">>, trail |-> <<CR, LF>>]>>
  IN  {SetThenGet, ValueLikeCommand, EmptyAndOddTrailer, TwoDigitLength}

\* The bytes of one command and of a stream of commands.
McBytes(c) == c.hdr \o c.value \o c.trail

RECURSIVE McWire(_)
McWire(cs) == IF cs = <<>> THEN <<>> ELSE McBytes(Head(cs)) \o McWire(Tail(cs))

\* Everything but the memcache reader.
not_mc == <<ctx_vars, empty_add, hook_vars, iobuf, http, sset, pubs, bkt, pub_vars, decs, oc_vars,
            protocol, rpc, wpc, buf, dispatch_q, conn_closing, async_dispatch, builder_err,
            batch_mode, evc_notified, wreq, rcmd, sent, next_seq, n_recv, parse_status,
            consumed, inlined, queued, last_parse, uaf>>

Digits == <<"0", "1", "2", "3", "4", "5", "6", "7", "8", "9">>
IsDigit(c) == \E d \in DOMAIN Digits : Digits[d] = c
DigitVal(c) == (CHOOSE d \in DOMAIN Digits : Digits[d] = c) - 1

RECURSIVE ParseNum(_, _)
ParseNum(tok, acc) ==
  IF tok = <<>> THEN acc ELSE ParseNum(Tail(tok), 10 * acc + DigitVal(Head(tok)))

IsNum(tok) == tok # <<>> /\ \A i \in DOMAIN tok : IsDigit(tok[i])

\* The words of a header line, split at single spaces.
RECURSIVE Tokens(_, _, _)
Tokens(line, cur, acc) ==
  IF line = <<>> THEN (IF cur = <<>> THEN acc ELSE Append(acc, cur))
  ELSE IF Head(line) = " "
       THEN Tokens(Tail(line), <<>>, IF cur = <<>> THEN acc ELSE Append(acc, cur))
  ELSE Tokens(Tail(line), Append(cur, Head(line)), acc)

\* MemcacheParser::Parse: one header line.  Without a newline the input is
\* pending; a line is "set <key> <flags> <exptime> <bytes>" or "get <key>".
McParse(str) ==
  LET pos == FindLF(str)
  IN IF pos = -1
     THEN [result |-> "INPUT_PENDING", consumed |-> 0, store |-> FALSE, bytes_len |-> 0]
     ELSE LET bad == [result |-> "PARSE_ERROR", consumed |-> pos + 1, store |-> FALSE,
                      bytes_len |-> 0]
          IN IF pos = 0 \/ str[pos] # CR THEN bad
             ELSE LET toks == Tokens(SubSeq(str, 1, pos - 1), <<>>, <<>>)
                  IN IF Len(toks) = 5 /\ toks[1] = <<"s", "e", "t">> /\ IsNum(toks[5])
                     THEN [result |-> "OK", consumed |-> pos + 1, store |-> TRUE,
                           bytes_len |-> ParseNum(toks[5], 0)]
                     ELSE IF Len(toks) >= 2 /\ toks[1] = <<"g", "e", "t">>
                     THEN [result |-> "OK", consumed |-> pos + 1, store |-> FALSE,
                           bytes_len |-> 0]
                     ELSE bad

\* Mutation of StoreTotalLen: the two trailing bytes are not counted.
StoreLenNoTrailer(n_consumed, bytes_len) == n_consumed + bytes_len

\* Line 451: total_len of a store command.
StoreTotalLen(n_consumed, bytes_len) == n_consumed + bytes_len + 2

\* ParseMemcache, lines 440-485, on the buffer str: what is left of the
\* buffer, the commands handed to DispatchMC with their values, the bytes
\* consumed and the status returned.  value keeps what the last store command
\* set (line 437 declares it outside the loop).
RECURSIVE ParseMemcache(_, _, _, _, _, _)
ParseMemcache(str, dispatched, n_total, value, q_empty, async) ==
  LET r == McParse(str)
  IN IF r.result # "OK"
     THEN [io |-> SubSeq(str, r.consumed + 1, Len(str)), dispatched |-> dispatched,
           n_total |-> n_total + r.consumed,
           status |-> IF r.result = "INPUT_PENDING" THEN "NEED_MORE" ELSE "OK",
           error |-> r.result # "INPUT_PENDING"]
     ELSE LET total_len == IF r.store THEN StoreTotalLen(r.consumed, r.bytes_len)
                           ELSE r.consumed
              value2 == IF r.store THEN SubSeq(str, r.consumed + 1, r.consumed + r.bytes_len)
                        ELSE value
          IN IF r.store /\ Len(str) < total_len
             THEN [io |-> str, dispatched |-> dispatched, n_total |-> n_total,
                   status |-> "NEED_MORE", error |-> FALSE]
             ELSE ParseMemcache(
                    SubSeq(str, total_len + 1, Len(str)),
                    IF q_empty /\ ~async
                    THEN Append(dispatched, [hdr |-> SubSeq(str, 1, r.consumed),
                                             store |-> r.store, value |-> value2,
                                             total_len |-> total_len])
                    ELSE dispatched,
                    n_total + total_len, value2, q_empty, async)

\* A memcache client connects and will send one of the streams.
McAccept ==
  /\ protocol = "MEMCACHE"
  /\ mc.pc = "idle"
  /\ \E cs \in McStreams : mc' = [NoMc EXCEPT !.pc = "loop", !.stream = cs, !.input = McWire(cs)]
  /\ UNCHANGED not_mc

\* One round of IoLoop on a memcache connection, lines 494-519: Recv, then
\* ParseMemcache on all of io_buf_.
McRecv ==
  /\ mc.pc = "loop"
  /\ \E recv_sz \in RecvSizes(kMinReadSize - Len(mc.io), Len(mc.input) - mc.off) :
       LET str == mc.io \o SubSeq(mc.input, mc.off + 1, mc.off + recv_sz)
           r == ParseMemcache(str, <<>>, 0, <<>>, dispatch_q = <<>>, async_dispatch)
       IN mc' = [mc EXCEPT !.io = r.io, !.off = mc.off + recv_sz,
                           !.dispatched = @ \o r.dispatched,
                           !.n_total = @ + r.n_total,
                           !.status = r.status, !.error = @ \/ r.error]
  /\ UNCHANGED not_mc

NextMc ==
  \/ McAccept
  \/ McRecv

InitMc == InitCtx /\ InitConn /\ protocol = "MEMCACHE"

SpecMc == InitMc /\ [][NextMc]_vars

\* The commands of the stream whose bytes have all arrived.
RECURSIVE Arrived(_, _)
Arrived(cs, n) ==
  IF cs = <<>> \/ Len(McBytes(Head(cs))) > n THEN <<>>
  ELSE <<Head(cs)>> \o Arrived(Tail(cs), n - Len(McBytes(Head(cs))))

RECURSIVE WireLen(_)
WireLen(cs) == IF cs = <<>> THEN 0 ELSE Len(McBytes(Head(cs))) + WireLen(Tail(cs))

\* C23: a memcache store command is dispatched only once the buffer holds its
\* header, bytes_len value bytes and 2 trailing bytes; the value passed on is
\* exactly the bytes_len bytes after the header, exactly header + bytes_len + 2
\* bytes are consumed, and while the value is incomplete nothing of the
\* command is consumed or dispatched, so that it is executed exactly once when
\* the rest has arrived.
C23_StoreDispatchedWhenComplete ==
  mc.pc = "loop" =>
    LET done == Arrived(mc.stream, mc.off)
    IN /\ ~mc.error
       /\ Len(mc.dispatched) = Len(done)
       /\ \A i \in DOMAIN done :
            /\ mc.dispatched[i].hdr = done[i].hdr
            /\ mc.dispatched[i].store = done[i].store
            /\ done[i].store => mc.dispatched[i].value = done[i].value
            /\ mc.dispatched[i].total_len = Len(McBytes(done[i]))
       /\ mc.n_total = WireLen(done)
       /\ mc.n_total + Len(mc.io) = mc.off

\* A store command whose value has arrived only in part: header read, nothing
\* of it consumed, and an earlier store command already dispatched.
C23_Witness ==
  /\ mc.pc = "loop"
  /\ mc.status = "NEED_MORE"
  /\ Len(mc.dispatched) = 1
  /\ mc.dispatched[1].store
  /\ Len(mc.io) > 12
  /\ McParse(mc.io).result = "OK"
  /\ McParse(mc.io).store

(***************************************************************************)
(* Pub/sub frames with their payload (dragonfly_connection.cc, lines       *)
(* 248-267 and 571-597).                                                   *)
(***************************************************************************)
MaxPubFrames == 3

\* PubMessage: pattern (empty for a channel subscription), channel, message.
PubMessages ==
  [pattern : {"", "c*"}, channel : {"c1", "c2"}, message : {"m1", "m2"}]

\* Everything but the frames above.
not_pubs == <<ctx_vars, empty_add, hook_vars, iobuf, http, mc, sset, bkt, pub_vars, decs,
              oc_vars, conn_vars>>

\* Mutation of PubArray: the pattern is left out.
PubArrayNoPattern(pub_msg) == <<"message", pub_msg.channel, pub_msg.message>>

\* Lines 577-592: the array handed to SendStringArr.
PubArray(pub_msg) ==
  IF pub_msg.pattern = ""
  THEN <<"message", pub_msg.channel, pub_msg.message>>
  ELSE <<"pmessage", pub_msg.pattern, pub_msg.channel, pub_msg.message>>

\* SendMsgVecAsync, lines 248-267, on a connection that is not closing: the
\* frame is pushed onto dispatch_q_.
PubEnqueue ==
  /\ ~conn_closing
  /\ Len(pubs.log) < MaxPubFrames
  /\ \E pub_msg \in PubMessages :
       pubs' = [pubs EXCEPT !.q = PushBack(@, pub_msg), !.log = Append(@, pub_msg)]
  /\ UNCHANGED not_pubs

\* DispatchFiber, lines 571-597, for a pub/sub frame: pop it, write its
\* array, decrement its counter.
PubDispatch ==
  /\ ~conn_closing
  /\ pubs.q # <<>>
  /\ LET req == Front(pubs.q)
     IN pubs' = [pubs EXCEPT !.q = PopFront(@), !.taken = @ + 1,
                             !.out = Append(@, PubArray(req)), !.dec = @ + 1]
  /\ UNCHANGED not_pubs

NextPub ==
  \/ PubEnqueue
  \/ PubDispatch

SpecPub == InitSub /\ [][NextPub]_vars

\* C24: the dispatch fiber writes a pub/sub frame as the 3-element array
\* {"message", channel, message} when the frame's pattern is empty and as the
\* 4-element array {"pmessage", pattern, channel, message} otherwise, exactly
\* one array per frame taken from the queue.
C24_PubFrameArrays ==
  /\ Len(pubs.out) = pubs.taken
  /\ \A i \in DOMAIN pubs.out :
       LET arr == pubs.out[i]
           m == pubs.log[i]
       IN /\ Len(arr) = IF m.pattern = "" THEN 3 ELSE 4
          /\ arr[1] = IF m.pattern = "" THEN "message" ELSE "pmessage"
          /\ Len(arr) = 4 => arr[2] = m.pattern
          /\ arr[Len(arr) - 1] = m.channel
          /\ arr[Len(arr)] = m.message

\* A channel message and a pattern message were both written.
C24_Witness ==
  /\ \E i \in DOMAIN pubs.out : Len(pubs.out[i]) = 3
  /\ \E i \in DOMAIN pubs.out : Len(pubs.out[i]) = 4

(***************************************************************************)
(* StringSet (core/string_set.h; spec sections 3 and 4.1).                 *)
(***************************************************************************)
\* Everything but the StringSet.
not_sset == <<ctx_vars, empty_add, hook_vars, iobuf, http, mc, pubs, bkt, pub_vars, decs,
              oc_vars, conn_vars>>

\* BucketId, lines 231-233: the top capacity_log bits of the hash.
BucketId(hash, capacity_log) == hash \div Pow2(HashBits - capacity_log)

BucketOf(t, s) == BucketId(Hash[s], t.capacity_log)
BucketCount(t) == Pow2(t.capacity_log)
IsEmptySlot(slot) == slot.strs = <<>>
IsLink(slot) == Len(slot.strs) >= 2

\* FindEmptyAround, lines 237-239: 0, -1 or 1 towards an empty slot, 2 for none.
FindEmptyAround(t, bid) ==
  IF IsEmptySlot(t.entries[bid]) THEN 0
  ELSE IF bid > 0 /\ IsEmptySlot(t.entries[bid - 1]) THEN -1
  ELSE IF bid + 1 < BucketCount(t) /\ IsEmptySlot(t.entries[bid + 1]) THEN 1
  ELSE 2

\* SuperPtr::Compare: the string of a slot, for a chain the one of its head.
Compare(slot, s) == ~IsEmptySlot(slot) /\ Head(slot.strs) = s

\* Mutation of FindAround: the slot after the bucket is not looked at.
FindAroundNoNext(t, s, bid) ==
  IF \E i \in DOMAIN t.entries[bid].strs : t.entries[bid].strs[i] = s THEN 0
  ELSE IF bid > 0 /\ Compare(t.entries[bid - 1], s) THEN -1
  ELSE 2

\* FindAround, lines 241-243: 0, -1 or 1 where the string is, 2 for nowhere;
\* in the home bucket the chain is searched.
FindAround(t, s, bid) ==
  IF \E i \in DOMAIN t.entries[bid].strs : t.entries[bid].strs[i] = s THEN 0
  ELSE IF bid > 0 /\ Compare(t.entries[bid - 1], s) THEN -1
  ELSE IF bid + 1 < BucketCount(t) /\ Compare(t.entries[bid + 1], s) THEN 1
  ELSE 2

Contains(t, s) == FindAround(t, s, BucketOf(t, s)) < 2

\* NewLink allocates a link node.
NewLink(num_chain_entries) == num_chain_entries + 1

\* Mutation of Free: the node is released and not counted.
FreeNoCount(num_chain_entries) == num_chain_entries

\* Free, lines 259-262: --num_chain_entries_ on a uint32_t; a value below 0
\* stands for the wrapped counter.
Free(num_chain_entries) == num_chain_entries - 1

\* Link: put s into its home bucket bid.  A displaced string found there
\* gives way and goes back to its own bucket; an occupied bucket becomes a
\* chain with s as its new head.
RECURSIVE Link(_, _, _)
Link(t, s, bid) ==
  LET slot == t.entries[bid]
      mine == [strs |-> <<s>>, displaced |-> FALSE]
  IN IF IsEmptySlot(slot) THEN [t EXCEPT !.entries[bid] = mine]
     ELSE IF slot.displaced
     THEN Link([t EXCEPT !.entries[bid] = mine], Head(slot.strs), BucketOf(t, Head(slot.strs)))
     ELSE [t EXCEPT !.entries[bid] = [strs |-> <<s>> \o slot.strs, displaced |-> FALSE],
                    !.num_chain_entries = NewLink(@)]

\* Insertion without growth: the bucket, the one before, the one after, else a chain.
Insert(t, s) ==
  LET bid == BucketOf(t, s)
      offs == FindEmptyAround(t, bid)
      t2 == [t EXCEPT !.size = @ + 1]
  IN IF offs < 2
     THEN [t2 EXCEPT !.entries[bid + offs] = [strs |-> <<s>>, displaced |-> offs # 0]]
     ELSE Link(t2, s, bid)

\* The strings of the table, bucket by bucket.
RECURSIVE StringsFrom(_, _)
StringsFrom(t, bid) ==
  IF bid >= BucketCount(t) THEN <<>> ELSE t.entries[bid].strs \o StringsFrom(t, bid + 1)

\* The link nodes of the table: a chain of n strings has n - 1 of them.
RECURSIVE LinkNodesFrom(_, _)
LinkNodesFrom(t, bid) ==
  IF bid >= BucketCount(t) THEN 0
  ELSE (IF IsLink(t.entries[bid]) THEN Len(t.entries[bid].strs) - 1 ELSE 0)
         + LinkNodesFrom(t, bid + 1)

RECURSIVE FreeAll(_, _)
FreeAll(num_chain_entries, n) ==
  IF n = 0 THEN num_chain_entries ELSE FreeAll(Free(num_chain_entries), n - 1)

RECURSIVE InsertAll(_, _)
InsertAll(t, strs) == IF strs = <<>> THEN t ELSE InsertAll(Insert(t, Head(strs)), Tail(strs))

\* Grow: the table doubles, the link nodes are freed and every string is
\* inserted again.
Grow(t) ==
  InsertAll([entries |-> [b \in 0 .. (2 * BucketCount(t) - 1) |-> EmptySlot],
             capacity_log |-> t.capacity_log + 1, size |-> 0,
             num_chain_entries |-> FreeAll(t.num_chain_entries, LinkNodesFrom(t, 0))],
            StringsFrom(t, 0))

\* Growth is due when the insertion would need a second chain link, or when
\* the chain entries exceed a fraction of the table (by_fraction).
GrowNeeded(t, bid, by_fraction) ==
  /\ t.capacity_log < HashBits
  /\ FindEmptyAround(t, bid) = 2
  /\ IsLink(t.entries[bid]) \/ (by_fraction /\ t.num_chain_entries > 0)

\* Add, line 95.
Add(t, s, by_fraction) ==
  IF Contains(t, s) THEN [t |-> t, result |-> FALSE]
  ELSE [t |-> Insert(IF GrowNeeded(t, BucketOf(t, s), by_fraction) THEN Grow(t) ELSE t, s),
        result |-> TRUE]

RECURSIVE Without(_, _)
Without(strs, s) ==
  IF strs = <<>> THEN <<>>
  ELSE IF Head(strs) = s THEN Tail(strs) ELSE <<Head(strs)>> \o Without(Tail(strs), s)

\* Remove, line 97: out of the home bucket or its chain, which collapses to
\* an inline slot when one string is left, or out of the slot next to it.
Remove(t, s) ==
  LET bid == BucketOf(t, s)
      offs == FindAround(t, s, bid)
      slot == t.entries[bid]
  IN IF offs = 2 THEN [t |-> t, result |-> FALSE]
     ELSE IF offs = 0
     THEN [t |-> [t EXCEPT !.entries[bid] = [strs |-> Without(slot.strs, s),
                                              displaced |-> FALSE],
                           !.num_chain_entries = IF IsLink(slot) THEN Free(@) ELSE @,
                           !.size = @ - 1],
           result |-> TRUE]
     ELSE [t |-> [t EXCEPT !.entries[bid + offs] = EmptySlot, !.size = @ - 1],
           result |-> TRUE]

\* set_malloc_used, lines 134-136, with sizeof(SuperPtr) = 8 (line 79).
SetMallocUsed(t) == (t.num_chain_entries + BucketCount(t)) * 8

SSetAdd ==
  /\ \E s \in Strings, by_fraction \in BOOLEAN :
       LET r == Add(sset.t, s, by_fraction)
       IN sset' = [t |-> r.t, present |-> sset.present \cup {s},
                   last |-> [op |-> "add", str |-> s, result |-> r.result,
                             was_present |-> s \in sset.present]]
  /\ UNCHANGED not_sset

SSetRemove ==
  /\ \E s \in Strings :
       LET r == Remove(sset.t, s)
       IN sset' = [t |-> r.t, present |-> sset.present \ {s},
                   last |-> [op |-> "remove", str |-> s, result |-> r.result,
                             was_present |-> s \in sset.present]]
  /\ UNCHANGED not_sset

NextSet ==
  \/ SSetAdd
  \/ SSetRemove

SpecSet == InitSub /\ [][NextSet]_vars

\* C25: for all sequences of Add and Remove over a bounded set of strings,
\* Add(s) returns true iff s was absent, Remove(s) returns true iff s was
\* present, Contains(s) is true iff s was added and not removed since, and
\* size() is the number of distinct strings present, across table growth and
\* the creation and collapse of chains.
C25_SetSemantics ==
  /\ sset.last.op = "add" => sset.last.result = ~sset.last.was_present
  /\ sset.last.op = "remove" => sset.last.result = sset.last.was_present
  /\ \A s \in Strings : Contains(sset.t, s) <=> s \in sset.present
  /\ sset.t.size = Cardinality(sset.present)

\* The table has grown, holds a chain and a displaced string, and the last
\* call removed a string.
C25_Witness ==
  /\ sset.t.capacity_log > MinLog
  /\ \E b \in DOMAIN sset.t.entries : IsLink(sset.t.entries[b])
  /\ \E b \in DOMAIN sset.t.entries : sset.t.entries[b].displaced
  /\ sset.last.op = "remove"
  /\ sset.last.result

\* C27: in every reachable state set_malloc_used() is (number of chain link
\* entries + capacity of the slot table) times the 8 bytes of a slot, where
\* the count of chain entries goes up by one per allocated link node, down by
\* one per freed one, and never underflows.
C27_MallocUsedCountsLinks ==
  /\ sset.t.num_chain_entries = LinkNodesFrom(sset.t, 0)
  /\ sset.t.num_chain_entries >= 0
  /\ sset.t.num_chain_entries <= NumStrings
  /\ SetMallocUsed(sset.t) = (LinkNodesFrom(sset.t, 0) + Cardinality(DOMAIN sset.t.entries)) * 8

\* A chain of three strings shrank by one link node.
C27_Witness ==
  /\ sset.last.op = "remove"
  /\ sset.last.result
  /\ \E b \in DOMAIN sset.t.entries : IsLink(sset.t.entries[b])
  /\ sset.t.num_chain_entries >= 1
  /\ sset.t.size >= 3

(***************************************************************************)
(* Reply batching and pub/sub frames of the dispatch fiber, under Spec.    *)
(***************************************************************************)
\* The dispatch fiber took a command frame in this step.
TakesCommand == wpc # "exec" /\ wpc' = "exec"

\* C28: for each queued command frame the dispatch fiber sets reply batching
\* to true iff at least one frame remains in the dispatch queue after that
\* frame was popped, and to false when it was the last one.
C28_BatchIffMoreQueued ==
  [][TakesCommand =>
       /\ dispatch_q' = PopFront(dispatch_q)
       /\ wreq' = Front(dispatch_q)
       /\ batch_mode' = (Len(dispatch_q) >= 2)]_vars

\* A command frame answered in batch mode with a frame behind it, after one
\* answered outside batch mode.
C28_Witness ==
  /\ wpc = "exec"
  /\ batch_mode
  /\ dispatch_q # <<>>
  /\ \E i \in WorkerCommandReplies : TRUE

\* C29: whenever the dispatch fiber waits on an empty dispatch queue the reply
\* builder is not in batch mode: the last frame it worked on, a command or a
\* pub/sub frame, was written with batching off.
C29_IdleWorkerNotBatching ==
  (wpc = "await" /\ dispatch_q = <<>>) => ~batch_mode

\* The step pushed a pub/sub frame onto the dispatch queue.
PushesPubFrame ==
  /\ Len(dispatch_q') = Len(dispatch_q) + 1
  /\ dispatch_q'[Len(dispatch_q')].async

\* C30: a pub/sub frame is pushed onto the dispatch queue only while
\* force_dispatch is true, also when the delivery reaches SendMsgVecAsync
\* after the last unsubscribe, so that the dispatch fiber never writes a
\* pub/sub message on a connection whose reader may dispatch inline.
C30_PubFramesOnlyWhileForced ==
  /\ [][PushesPubFrame => force_dispatch]_vars
  /\ [](wpc = "pub" => force_dispatch)

(***************************************************************************)
(* Wake-ups of the dispatch fiber, checked under SpecLive.                 *)
(***************************************************************************)
\* The numbers frames can get: one per command of the longest read and one
\* per publisher.
FrameSeqs == 1 .. (Len(Pipeline) + MaxPubs)

\* The frame numbered s waits in the dispatch queue.
InQueue(s) == \E i \in DOMAIN dispatch_q : dispatch_q[i].seq = s

\* The dispatch fiber took the frame numbered s and wrote its reply.
Processed(s) == \E i \in WorkerReplies : sent[i].seq = s

\* The dispatch fiber never waits un-notified on a non-empty queue, and a
\* fiber that waits on a non-empty queue eventually leaves the wait.
NeverBlockedOnWork ==
  /\ []((wpc = "await" /\ dispatch_q # <<>>) => evc_notified)
  /\ (wpc = "await" /\ dispatch_q # <<>>) ~> (wpc # "await")

\* C31 as stated: under fair scheduling every frame that is in the dispatch
\* queue while the connection is not closing is eventually taken and
\* processed by the dispatch fiber, and the fiber never stays blocked on its
\* wake condition while the queue is non-empty.
C31_EveryFrameProcessed ==
  /\ \A s \in FrameSeqs : (InQueue(s) /\ ~conn_closing) ~> Processed(s)
  /\ NeverBlockedOnWork

\* A step removes frames from the dispatch queue.
LeavesQueue == Len(dispatch_q') < Len(dispatch_q)

\* The dispatch fiber pops the front frame and starts on it.
TakenByWorker ==
  /\ dispatch_q' = PopFront(dispatch_q)
  /\ wreq' = Front(dispatch_q)
  /\ wpc' \in {"pub", "exec"}

\* The dispatch fiber leaves its loop on a closing connection or a reply
\* builder error and drops what is queued.
DiscardedAtExit ==
  /\ conn_closing \/ builder_err
  /\ wpc' = "done"
  /\ dispatch_q' = <<>>

\* The dispatch fiber finishes the frame it works on.
FinishesFrame == wpc \in {"pub", "exec"} /\ wpc' \notin {"pub", "exec"}

\* C31: under fair scheduling no queued frame waits forever: as long as the
\* dispatch fiber lives the queue drains again and again, frames leave it
\* only at the front, taken by the fiber, which then writes their reply, or
\* all at once when the fiber exits on a closing connection or a reply
\* builder error; the fiber never stays blocked on its wake condition while
\* the queue is non-empty.
C31_NoLostWakeup ==
  /\ []<>(dispatch_q = <<>> \/ wpc = "done")
  /\ [][LeavesQueue => (TakenByWorker \/ DiscardedAtExit)]_vars
  /\ (wpc \in {"pub", "exec"}) ~> (wpc \notin {"pub", "exec"})
  /\ [][FinishesFrame => \E i \in DOMAIN sent' :
                           sent'[i].who = "worker" /\ sent'[i].seq = wreq.seq]_vars
  /\ NeverBlockedOnWork

\* The dispatch fiber was notified for the first frame and still waits while
\* a second frame, pushed without a notification, is queued behind it.
C31_Witness ==
  /\ wpc = "await"
  /\ evc_notified
  /\ ~conn_closing
  /\ Len(dispatch_q) >= 2

(***************************************************************************)
(* The dispatch queue after the dispatch fiber exited, checked under Spec. *)
(***************************************************************************)
\* C32: no frame is appended to the dispatch queue after the dispatch fiber
\* has exited, also when it exited on a reply builder error while the
\* connection fiber was still reading from the socket; the queue is empty
\* when the connection is torn down, so that every frame was freed.
C32_NoPushAfterWorkerExit ==
  /\ [][wpc = "done" => Len(dispatch_q') <= Len(dispatch_q)]_vars
  /\ [](Released => dispatch_q = <<>>)

(***************************************************************************)
(* Shutdown handles (dragonfly_connection.cc, lines 88-100 and 157-170).   *)
(***************************************************************************)
\* Connection::UnregisterShutdownHook, lines 164-170, called a second time
\* with a handle whose hook was unregistered before.
UnregisterStaleHandle ==
  /\ \E r \in DOMAIN returned :
       /\ r \notin Range(LiveCallbacks)
       /\ LET id == returned[r]
              map2 == ShutdownRemove(shutdown, id)
          IN shutdown' = IF ~shutdown.exists THEN shutdown
                         ELSE IF map2 = {} THEN NoShutdown
                         ELSE [shutdown EXCEPT !.map = map2]
  /\ sh_called' = FALSE
  /\ UNCHANGED <<live, next_cb, invoked, returned, rest_vars>>

NextHandles ==
  \/ RegisterShutdownHook
  \/ UnregisterShutdownHook
  \/ UnregisterStaleHandle
  \/ OnShutdown

SpecHandles == InitSub /\ [][NextHandles]_vars

\* The callbacks shutdown_ holds.
RegisteredCallbacks == IF shutdown.exists THEN {e.cb : e \in shutdown.map} ELSE {}

\* C33: every handle RegisterShutdownHook returns differs from every handle
\* it returned before on the connection, whatever Register and Unregister
\* calls came in between, so that a stale handle passed to
\* UnregisterShutdownHook never removes a hook registered later: every hook
\* registered and not unregistered is still held.
C33_HandlesNeverReused ==
  /\ NoRepeat(returned)
  /\ Range(LiveCallbacks) \subseteq RegisteredCallbacks

(***************************************************************************)
(* Unsubscribing what is not subscribed, checked under SpecSub.            *)
(***************************************************************************)
\* The step is a call of ChangeSubscription or ChangePSub with to_add false.
UnsubscribeCall == (CallChangeSubscription \/ CallChangePSub) /\ ~last_call'.to_add

\* The channels of the call's arguments the connection is subscribed to.
Subscribed == Range(last_call'.args) \cap subscribe_info.channels

\* C34: an unsubscribe or punsubscribe on a connection without a subscription
\* record changes nothing: no record is created, force_dispatch stays false,
\* no shard task runs, no registry changes, and one acknowledgement per
\* argument is written, each with count 0; unsubscribing a channel the
\* connection is not subscribed to removes nothing from any shard's registry:
\* only subscribed channels are removed, and a shard runs a task only if one
\* of them is its own.
C34_UnsubscribeWithoutRecordIsNoop ==
  [][UnsubscribeCall =>
       /\ ~subscribe_info.exists =>
            /\ ~subscribe_info'.exists
            /\ ~force_dispatch /\ ~force_dispatch'
            /\ shard_ran' = {}
            /\ chan_reg' = chan_reg /\ pat_reg' = pat_reg
            /\ Len(acks') = Len(last_call'.args)
            /\ \A i \in DOMAIN acks' :
                 /\ acks'[i].count = 0
                 /\ acks'[i].name = last_call'.args[i]
                 /\ acks'[i].action = AckAction(FALSE, last_call'.pat)
       /\ ~last_call'.pat =>
            \A sid \in Shards :
              /\ Range(last_ops'[sid]) \subseteq Subscribed
              /\ (chan_reg[sid] \ chan_reg'[sid]) \subseteq Subscribed
              /\ sid \in shard_ran' => last_ops'[sid] # <<>>]_vars

\* PUNSUBSCRIBE of two patterns was called on a connection without a record:
\* no shard ran a task and two acknowledgements with count 0 were written.
C34_Witness ==
  /\ last_call.pat
  /\ ~last_call.to_add
  /\ last_call.to_reply
  /\ Len(last_call.args) = 2
  /\ shard_ran = {}
  /\ Len(acks) = 2
  /\ \A i \in DOMAIN acks : acks[i].count = 0
  /\ ~subscribe_info.exists
  /\ ~force_dispatch

(***************************************************************************)
(* BucketId and the stable scanning order (string_set.h, lines 138-149 and *)
(* 231-233).  The hash has HashBits bits in place of 64.                    *)
(***************************************************************************)
\* Everything but the bucket computation.
not_bkt == <<ctx_vars, empty_add, hook_vars, iobuf, http, mc, sset, pubs, pub_vars, decs,
             oc_vars, conn_vars>>

\* The values of a hash.
HashValues == 0 .. (Pow2(HashBits) - 1)

\* What BucketId can return: hash >> (64 - capacity_log_).  With
\* capacity_log_ = 0 the shift count is the width of the type, which C++
\* leaves undefined: the build decides what comes out.
BucketIdResults(hash, capacity_log) ==
  IF capacity_log = 0 THEN HashValues ELSE {BucketId(hash, capacity_log)}

\* BucketId is called for a hash while the table has 2^k buckets and a scan
\* has covered the buckets up to the cursor.
BucketIdCall ==
  /\ \E h \in HashValues, k \in 0 .. HashBits :
       \E c \in 0 .. (Pow2(k) - 1), r \in BucketIdResults(h, k) :
         bkt' = [op |-> "call", hash |-> h, capacity_log |-> k, bid |-> r, cursor |-> c,
                 prev_bid |-> 0, prev_cursor |-> 0]
  /\ UNCHANGED not_bkt

\* The table doubles: the entry is placed again, the cursor moves to the last
\* child of the bucket it stood on.
TableDoubles ==
  /\ bkt.op # "none"
  /\ bkt.capacity_log < HashBits
  /\ \E r \in BucketIdResults(bkt.hash, bkt.capacity_log + 1) :
       bkt' = [op |-> "double", hash |-> bkt.hash, capacity_log |-> bkt.capacity_log + 1,
               bid |-> r, cursor |-> 2 * bkt.cursor + 1,
               prev_bid |-> bkt.bid, prev_cursor |-> bkt.cursor]
  /\ UNCHANGED not_bkt

\* The table halves: the entry is placed again, the cursor moves to the
\* parent of the bucket it stood on.
TableHalves ==
  /\ bkt.op # "none"
  /\ bkt.capacity_log > 0
  /\ \E r \in BucketIdResults(bkt.hash, bkt.capacity_log - 1) :
       bkt' = [op |-> "halve", hash |-> bkt.hash, capacity_log |-> bkt.capacity_log - 1,
               bid |-> r, cursor |-> bkt.cursor \div 2,
               prev_bid |-> bkt.bid, prev_cursor |-> bkt.cursor]
  /\ UNCHANGED not_bkt

NextBucket ==
  \/ BucketIdCall
  \/ TableDoubles
  \/ TableHalves

SpecBucket == InitSub /\ [][NextBucket]_vars

\* For a table of at least two buckets the bucket id is below the bucket
\* count, the bucket after doubling is a child of the bucket before, the
\* bucket after halving is its parent, and an entry in a bucket the cursor
\* has covered is in a covered bucket afterwards.
BucketIdWithinTable ==
  /\ bkt.capacity_log >= 1 /\ bkt.op # "none" =>
       bkt.bid \in 0 .. (Pow2(bkt.capacity_log) - 1)
  /\ bkt.op = "double" /\ bkt.capacity_log >= 2 =>
       /\ bkt.bid \div 2 = bkt.prev_bid
       /\ bkt.prev_bid <= bkt.prev_cursor => bkt.bid <= bkt.cursor
  /\ bkt.op = "halve" /\ bkt.capacity_log >= 1 =>
       /\ bkt.bid = bkt.prev_bid \div 2
       /\ bkt.prev_bid <= bkt.prev_cursor => bkt.bid <= bkt.cursor

\* C35: for every hash and every capacity_log k of at least 1 BucketId lies
\* in [0, 2^k) and the bucket at size k+1 is a child of the bucket at size k,
\* so that buckets a cursor has covered stay covered when the table doubles
\* or halves; for capacity_log = 0 the bucket id is 0.
C35_BucketIdTopBits ==
  /\ BucketIdWithinTable
  /\ bkt.op # "none" /\ bkt.capacity_log = 0 => bkt.bid = 0

=============================================================================
